---- MODULE Spec2Model ----
(***************************************************************************)
(* The layout engines of pygame_markup_gui as a state machine.             *)
(*                                                                         *)
(* State: an element tree with its computed styles, the layout_box every   *)
(* element carries, the fields of the engine instance, and whether the     *)
(* last layout() call propagated an exception.  The one operation of an    *)
(* engine is layout(root); an action is one whole call of it.              *)
(*                                                                         *)
(* Numbers.  The code computes with Python floats; the model computes with *)
(* integers (pixels) and writes a / b as a \div b.  The input sets are     *)
(* chosen so that the divisions that decide a property are exact.          *)
(*                                                                         *)
(* Strings.  A CSS value is modelled by the words of value.split(); a word *)
(* is a numeric prefix (has, num) followed by a suffix of characters (suf),*)
(* so that endswith(), slicing and float() are computed as the code does.  *)
(* Keyword-valued properties (display, position, ...) are plain strings.   *)
(***************************************************************************)
EXTENDS Integers, Sequences, FiniteSets, TLC

VARIABLES
    engine,               \* class of the engine instance
    viewport,             \* [w, h]: viewport_width, viewport_height
    tree,                 \* the root HTMLElement: tag, text_content, computed_style, children
    boxes,                \* path of an element |-> its layout_box (absent: layout_box is None)
    positioned_elements,  \* EnhancedLayoutEngine.positioned_elements (paths)
    raised,               \* an exception escaped the last layout() call
    passes,               \* number of layout() calls made
    call,                 \* arguments of a helper called on its own
    ret,                  \* what that helper returned
    manager,              \* the InteractionManager of the tree, None before it is made
    trace                 \* events dispatched and listeners called by the last call

vars == <<engine, viewport, tree, boxes, positioned_elements, raised, passes, call, ret,
          manager, trace>>

\* ------------------------------------------------------------------ bounds
MaxKids == 2
MaxPasses == 2

\* ------------------------------------------------------------- arithmetic
Max(a, b) == IF a >= b THEN a ELSE b
Min(a, b) == IF a <= b THEN a ELSE b
Abs(a) == IF a < 0 THEN -a ELSE a

RECURSIVE SumSeq(_)
SumSeq(s) == IF s = <<>> THEN 0 ELSE Head(s) + SumSeq(Tail(s))

\* ----------------------------------------------------------------- strings
W(n, suffix) == [has |-> TRUE, num |-> n, suf |-> suffix]
Kw(chars) == [has |-> FALSE, num |-> 0, suf |-> chars]
Px(n) == W(n, <<"p", "x">>)
Pct(n) == W(n, <<"%">>)
Em(n) == W(n, <<"e", "m">>)
Rem(n) == W(n, <<"r", "e", "m">>)
Fr(n) == W(n, <<"f", "r">>)
Num(n) == W(n, <<>>)
Auto == Kw(<<"a", "u", "t", "o">>)

\* value.endswith(s)
EndsWith(w, s) ==
    /\ Len(w.suf) >= Len(s)
    /\ SubSeq(w.suf, Len(w.suf) - Len(s) + 1, Len(w.suf)) = s

\* float(value[:-k]) succeeds (k = 0: float(value)); otherwise ValueError
FloatOk(w, k) == w.has /\ Len(w.suf) = k

\* Python truthiness of a string
Truthy(w) == w.has \/ w.suf # <<>>

\* Optional[float]
None == [some |-> FALSE, v |-> 0]
Some(x) == [some |-> TRUE, v |-> x]

\* dict.get(k, d) and `k in dict`
Has(s, k) == k \in DOMAIN s
Get(s, k, d) == IF k \in DOMAIN s THEN s[k] ELSE d

\* {}: a style without declarations
NoStyle == [k \in {} |-> 0]

\* ------------------------------------------------------------------- tree
\* An element is [tag, text_content, computed_style, children]; it is
\* identified by its path from the root (the child indexes, root = <<>>).
Elem(tg, txt, sty, kids) ==
    [tag |-> tg, text_content |-> txt, computed_style |-> sty, children |-> kids]

RECURSIVE NodeAt(_, _)
NodeAt(t, p) == IF p = <<>> THEN t ELSE NodeAt(t.children[Head(p)], Tail(p))

Parent(p) == SubSeq(p, 1, Len(p) - 1)

RECURSIVE Paths(_, _)
Paths(t, p) ==
    {p} \cup UNION {Paths(t.children[i], Append(p, i)) : i \in 1..Len(t.children)}

\* LayoutBox()
LayoutBox ==
    [x |-> 0, y |-> 0, width |-> 0, height |-> 0,
     margin_top |-> 0, margin_right |-> 0, margin_bottom |-> 0, margin_left |-> 0,
     padding_top |-> 0, padding_right |-> 0, padding_bottom |-> 0, padding_left |-> 0,
     border_width |-> 0]

\* self.method(*a): the methods of an engine call one another through the
\* instance; a is the tuple of the arguments.
RECURSIVE Self(_, _)

\* The state a layout pass threads through its calls.
SetBox(st, p, b) == [st EXCEPT !.boxes = (p :> b) @@ st.boxes]
Raise(st) == [st EXCEPT !.raised = TRUE]

\* ------------------------------------------------ LayoutEngine: lengths
\* LayoutEngine._parse_length
Base_parse_length(value, container_size) ==
    IF ~Truthy(value) \/ value = Auto THEN 0
    ELSE IF EndsWith(value, <<"p", "x">>)
         THEN (IF FloatOk(value, 2) THEN value.num ELSE 0)
    ELSE IF EndsWith(value, <<"%">>)
         THEN (IF FloatOk(value, 1) THEN (container_size * value.num) \div 100 ELSE 0)
    ELSE IF EndsWith(value, <<"e", "m">>)
         THEN (IF FloatOk(value, 2) THEN value.num * 16 ELSE 0)
    ELSE IF EndsWith(value, <<"r", "e", "m">>)
         THEN (IF FloatOk(value, 3) THEN value.num * 16 ELSE 0)
    ELSE (IF FloatOk(value, 0) THEN value.num ELSE 0)

\* LayoutEngine._parse_box_value: (top, right, bottom, left)
Base_parse_box_value(value, container_size) ==
    IF Len(value) = 1
    THEN LET v == Self("Base_parse_length", <<value[1], container_size>>) IN <<v, v, v, v>>
    ELSE IF Len(value) = 2
    THEN LET v == Self("Base_parse_length", <<value[1], container_size>>)
             h == Self("Base_parse_length", <<value[2], container_size>>)
         IN <<v, h, v, h>>
    ELSE IF Len(value) = 4
    THEN [i \in 1..4 |-> Self("Base_parse_length", <<value[i], container_size>>)]
    ELSE <<0, 0, 0, 0>>

\* --------------------------------------------- LayoutEngine: auto height
TruthyKey(style, k) ==
    /\ Has(style, k)
    /\ IF k \in {"padding", "margin"} THEN style[k] # <<>>
       ELSE IF k \in {"background", "background-color"} THEN style[k] # ""
       ELSE Truthy(style[k])

\* height_defaults.get(element.tag, 30)
Base_height_defaults(tag) ==
    CASE tag = "h1" -> 50 [] tag = "h2" -> 45 [] tag = "h3" -> 40
      [] tag = "h4" -> 35 [] tag = "h5" -> 30 [] tag = "h6" -> 25
      [] tag = "button" -> 40 [] tag = "input" -> 35
      [] tag = "nav" -> 60 [] tag = "header" -> 100 [] tag = "footer" -> 60
      [] tag = "aside" -> 300 [] tag = "main" -> 400 [] tag = "section" -> 250
      [] tag = "p" -> 30 [] tag = "span" -> 25
      [] OTHER -> 30

\* LayoutEngine._calculate_auto_height (1.2 * font_size is (12 * font_size) \div 10)
Base_calculate_auto_height(t, p, container_height, vp) ==
    LET element == NodeAt(t, p)
        style == element.computed_style
        in_file_list ==
            /\ element.tag = "div" /\ element.text_content # <<>> /\ p # <<>>
            /\ Get(NodeAt(t, Parent(p)).computed_style, "class", "") = "file-list"
        font_size == Self("Base_parse_length", <<Get(style, "font-size", Px(16)), 0>>)
        lh == Get(style, "line-height", Num(0))
        line_height ==
            IF ~Has(style, "line-height") THEN (12 * font_size) \div 10
            ELSE IF EndsWith(lh, <<"p", "x">>) THEN Self("Base_parse_length", <<lh, 0>>)
            ELSE IF FloatOk(lh, 0) THEN lh.num * font_size
            ELSE (12 * font_size) \div 10
        pt0 == Self("Base_parse_length", <<Get(style, "padding-top", Num(0)), 0>>)
        pb0 == Self("Base_parse_length", <<Get(style, "padding-bottom", Num(0)), 0>>)
        shorthand == TruthyKey(style, "padding") /\ pt0 = 0
        pv == Self("Base_parse_box_value", <<Get(style, "padding", <<Num(0)>>), 0>>)
        padding_top == IF shorthand THEN pv[1] ELSE pt0
        padding_bottom == IF shorthand THEN pv[3] ELSE pb0
        has_background ==
            TruthyKey(style, "background") \/ TruthyKey(style, "background-color")
        has_padding == TruthyKey(style, "padding") \/ TruthyKey(style, "padding-top")
    IN  IF element.tag = "html" THEN vp.h
        ELSE IF element.tag = "body"
        THEN Max(0, container_height
                    - Self("Base_parse_length", <<Get(style, "margin-top", Num(0)), 0>>)
                    - Self("Base_parse_length", <<Get(style, "margin-bottom", Num(0)), 0>>))
        ELSE IF in_file_list THEN 42
        ELSE IF element.text_content # <<>>
        THEN Max(line_height + padding_top + padding_bottom, 30)
        ELSE IF element.tag \in {"div", "section", "main", "aside", "article"}
        THEN (IF has_background \/ has_padding
              THEN Min(100, container_height \div 4) ELSE 40)
        ELSE Self("Base_height_defaults", <<element.tag>>)

\* ------------------------------------------------ LayoutEngine: box model
\* parent_display / parent_flex_direction as _calculate_box_model reads them
ParentStyle(t, p) == IF p = <<>> THEN NoStyle ELSE NodeAt(t, Parent(p)).computed_style

\* The four margins (prop = "margin") or paddings (prop = "padding") of
\* LayoutEngine._calculate_box_model, as (top, right, bottom, left): the
\* longhands are parsed first and a shorthand in the style replaces them.
Base_box_edges(style, prop, container_width) ==
    LET side(s) == Self("Base_parse_length", <<Get(style, prop \o "-" \o s, Num(0)), container_width>>)
    IN  IF Has(style, prop)
        THEN Self("Base_parse_box_value", <<style[prop], container_width>>)
        ELSE <<side("top"), side("right"), side("bottom"), side("left")>>

\* LayoutEngine._calculate_box_model: the layout_box with edges, width and height
Base_calculate_box_model(t, p, container_width, container_height, vp) ==
    LET element == NodeAt(t, p)
        style == element.computed_style
        m == Self("Base_box_edges", <<style, "margin", container_width>>)
        pd == Self("Base_box_edges", <<style, "padding", container_width>>)
        width == Get(style, "width", Auto)
        height == Get(style, "height", Auto)
        parent_display == Get(ParentStyle(t, p), "display", "block")
        available_width == container_width - m[4] - m[2]
        text_width == Len(element.text_content) * 8
        min_width == text_width + pd[4] + pd[2] + 20
        w == IF width = Auto
             THEN IF parent_display = "flex" THEN Max(0, available_width)
                  ELSE IF element.tag = "button" /\ element.text_content # <<>>
                  THEN Max(min_width, Min(available_width, 150))
                  ELSE Max(0, available_width)
             ELSE Self("Base_parse_length", <<width, container_width>>)
        h == IF height = Auto
             THEN IF parent_display = "flex"
                  THEN Max(0, container_height - m[1] - m[3])
                  ELSE Self("Base_calculate_auto_height", <<t, p, container_height, vp>>)
             ELSE Self("Base_parse_length", <<height, container_height>>)
    IN  [LayoutBox EXCEPT
            !.margin_top = m[1], !.margin_right = m[2],
            !.margin_bottom = m[3], !.margin_left = m[4],
            !.padding_top = pd[1], !.padding_right = pd[2],
            !.padding_bottom = pd[3], !.padding_left = pd[4],
            !.border_width = Self("Base_parse_length", <<Get(style, "border-width", Num(0)), container_width>>),
            !.width = w, !.height = h]

\* --------------------------------------------------- LayoutEngine: flex
\* flex-grow, flex-shrink and flex-basis of a flex child as _layout_flex_row
\* and _layout_flex_column read them; err: float() raised ValueError.
Base_flex_props(style) ==
    LET g0 == Get(style, "flex-grow", Num(0))
        s0 == Get(style, "flex-shrink", Num(1))
        parts == Get(style, "flex", <<>>)
    IN  [err |-> \/ ~FloatOk(g0, 0)
                 \/ ~FloatOk(s0, 0)
                 \/ (Len(parts) >= 1 /\ ~FloatOk(parts[1], 0))
                 \/ (Len(parts) >= 2 /\ ~FloatOk(parts[2], 0)),
         flex_grow |-> IF Len(parts) >= 1 THEN parts[1].num ELSE g0.num,
         flex_shrink |-> IF Len(parts) >= 2 THEN parts[2].num ELSE s0.num,
         flex_basis |-> IF Len(parts) >= 3 THEN parts[3] ELSE Get(style, "flex-basis", Auto)]

\* _layout_flex_row, "Calculate base width": [err, base]
Base_row_base_width(child, props, available_width) ==
    LET style == child.computed_style
        basis == props.flex_basis
    IN  IF basis # Auto
        THEN IF EndsWith(basis, <<"p", "x">>)
             THEN [err |-> ~FloatOk(basis, 2), base |-> basis.num]
             ELSE [err |-> FALSE, base |-> 0]
        ELSE IF Get(style, "width", Auto) # Auto
        THEN [err |-> FALSE, base |-> Self("Base_parse_length", <<style["width"], available_width>>)]
        ELSE IF child.tag = "button" /\ child.text_content # <<>>
        THEN [err |-> FALSE, base |-> Len(child.text_content) * 8 + 40]
        ELSE [err |-> FALSE, base |-> IF props.flex_grow > 0 THEN 0 ELSE 100]

\* _layout_flex_column, "Calculate base height": [err, base]
Base_column_base_height(t, p, props, available_height, vp) ==
    LET style == NodeAt(t, p).computed_style
        basis == props.flex_basis
    IN  IF basis # Auto /\ EndsWith(basis, <<"p", "x">>)
        THEN [err |-> ~FloatOk(basis, 2), base |-> basis.num]
        ELSE IF Get(style, "height", Auto) # Auto
        THEN [err |-> FALSE, base |-> Self("Base_parse_length", <<style["height"], available_height>>)]
        ELSE [err |-> FALSE, base |-> Self("Base_calculate_auto_height", <<t, p, available_height, vp>>)]

\* Steps 2 and 3 of _layout_flex_row (keep_base) and _layout_flex_column
\* (~keep_base): grow the items with flex_grow > 0, then shrink on overflow.
\* items[i] = [flex_grow, flex_shrink, base]; the result is the final sizes.
Base_flex_distribute(items, available, keep_base) ==
    LET n == Len(items)
        total_fixed == SumSeq([i \in 1..n |-> IF items[i].flex_grow = 0 THEN items[i].base ELSE 0])
        total_flex_grow == SumSeq([i \in 1..n |-> items[i].flex_grow])
        remaining == available - total_fixed
        grown == [i \in 1..n |->
                    IF total_flex_grow > 0 /\ remaining > 0 /\ items[i].flex_grow > 0
                    THEN (IF keep_base THEN items[i].base ELSE 0)
                         + (items[i].flex_grow * remaining) \div total_flex_grow
                    ELSE items[i].base]
        total_used == SumSeq(grown)
        overflow == total_used - available
        total_flex_shrink == SumSeq([i \in 1..n |-> items[i].flex_shrink * grown[i]])
    IN  [i \in 1..n |->
            IF total_used > available /\ total_flex_shrink > 0
            THEN Max(0, grown[i] - (items[i].flex_shrink * grown[i] * overflow) \div total_flex_shrink)
            ELSE grown[i]]

\* Steps 1 to 3 of _layout_flex_row for the children of the element at p:
\* [err, final]: the final_width of every child.
Base_flex_row_sizes(t, p, available_width) ==
    LET kids == NodeAt(t, p).children
        props == [i \in 1..Len(kids) |-> Self("Base_flex_props", <<kids[i].computed_style>>)]
        bases == [i \in 1..Len(kids) |-> Self("Base_row_base_width", <<kids[i], props[i], available_width>>)]
        bad == \E i \in 1..Len(kids) : props[i].err \/ bases[i].err
        items == [i \in 1..Len(kids) |->
                    [flex_grow |-> props[i].flex_grow, flex_shrink |-> props[i].flex_shrink,
                     base |-> bases[i].base]]
    IN  [err |-> bad,
         final |-> IF bad THEN <<>> ELSE Self("Base_flex_distribute", <<items, available_width, TRUE>>)]

\* Steps 1 to 3 of _layout_flex_column: [err, final]: the final_height of every child.
Base_flex_column_sizes(t, p, available_height, vp) ==
    LET kids == NodeAt(t, p).children
        props == [i \in 1..Len(kids) |-> Self("Base_flex_props", <<kids[i].computed_style>>)]
        bases == [i \in 1..Len(kids) |->
                    Self("Base_column_base_height", <<t, Append(p, i), props[i], available_height, vp>>)]
        bad == \E i \in 1..Len(kids) : props[i].err \/ bases[i].err
        items == [i \in 1..Len(kids) |->
                    [flex_grow |-> props[i].flex_grow, flex_shrink |-> props[i].flex_shrink,
                     base |-> bases[i].base]]
    IN  [err |-> bad,
         final |-> IF bad THEN <<>> ELSE Self("Base_flex_distribute", <<items, available_height, FALSE>>)]

\* ------------------------------------------------- LayoutEngine: layout

\* LayoutEngine.layout, the is_root branch: the root's layout_box
Base_root_box(style, container_width, container_height) ==
    LET pd == IF TruthyKey(style, "padding")
              THEN Self("Base_parse_box_value", <<style["padding"], container_width>>)
              ELSE <<0, 0, 0, 0>>
        m == IF TruthyKey(style, "margin")
             THEN Self("Base_parse_box_value", <<style["margin"], container_width>>)
             ELSE <<0, 0, 0, 0>>
    IN  [LayoutBox EXCEPT
            !.width = container_width, !.height = container_height,
            !.padding_top = pd[1], !.padding_right = pd[2],
            !.padding_bottom = pd[3], !.padding_left = pd[4],
            !.margin_top = m[1], !.margin_right = m[2],
            !.margin_bottom = m[3], !.margin_left = m[4]]

\* The else branch with the top margin left out of y: a variant of
\* Base_child_box that places the box at the top of its margin area
Base_child_box_at_margin_edge(t, p, container_width, container_height, parent_x, parent_y, vp) ==
    LET bm == Self("Base_calculate_box_model", <<t, p, container_width, container_height, vp>>)
    IN  [bm EXCEPT !.x = parent_x + bm.margin_left, !.y = parent_y]

\* LayoutEngine.layout, the else branch: box model, then the position
Base_child_box(t, p, container_width, container_height, parent_x, parent_y, vp) ==
    LET bm == Self("Base_calculate_box_model", <<t, p, container_width, container_height, vp>>)
    IN  [bm EXCEPT !.x = parent_x + bm.margin_left, !.y = parent_y + bm.margin_top]

\* LayoutEngine.layout
Base_layout(st, t, p, vp, container_width, container_height, is_root, parent_x, parent_y) ==
    IF st.raised THEN st
    ELSE
    LET box == IF is_root
               THEN Self("Base_root_box", <<NodeAt(t, p).computed_style, container_width, container_height>>)
               ELSE Self("Base_child_box", <<t, p, container_width, container_height, parent_x, parent_y, vp>>)
    IN  Self("Base_layout_children", <<SetBox(st, p, box), t, p, vp,
                             box.width - box.padding_left - box.padding_right,
                             box.height - box.padding_top - box.padding_bottom>>)

\* _layout_flex_row, step 4
Base_flex_row_place(st, t, p, vp, i, final, current_x, content_y, available_height) ==
    IF st.raised \/ i > Len(final) THEN st
    ELSE Self("Base_flex_row_place", <<
            Self("Base_layout", <<st, t, Append(p, i), vp, final[i], available_height,
                        FALSE, current_x, content_y>>),
            t, p, vp, i + 1, final, current_x + final[i], content_y, available_height>>)

\* _layout_flex_column, step 4
Base_flex_column_place(st, t, p, vp, i, final, content_x, current_y, available_width) ==
    IF st.raised \/ i > Len(final) THEN st
    ELSE Self("Base_flex_column_place", <<
            Self("Base_layout", <<st, t, Append(p, i), vp, available_width, final[i],
                        FALSE, content_x, current_y>>),
            t, p, vp, i + 1, final, content_x, current_y + final[i], available_width>>)

\* LayoutEngine._layout_flex_row
Base_layout_flex_row(st, t, p, vp, available_width, available_height) ==
    LET box == st.boxes[p]
        sizes == Self("Base_flex_row_sizes", <<t, p, available_width>>)
    IN  IF sizes.err THEN Raise(st)
        ELSE Self("Base_flex_row_place", <<st, t, p, vp, 1, sizes.final,
                                 box.x + box.padding_left, box.y + box.padding_top,
                                 available_height>>)

\* LayoutEngine._layout_flex_column
Base_layout_flex_column(st, t, p, vp, available_width, available_height) ==
    LET box == st.boxes[p]
        sizes == Self("Base_flex_column_sizes", <<t, p, available_height, vp>>)
    IN  IF sizes.err THEN Raise(st)
        ELSE Self("Base_flex_column_place", <<st, t, p, vp, 1, sizes.final,
                                    box.x + box.padding_left, box.y + box.padding_top,
                                    available_width>>)

\* LayoutEngine._calculate_child_height
Base_calculate_child_height(t, p, remaining_height, vp) ==
    LET height == Get(NodeAt(t, p).computed_style, "height", Auto)
    IN  IF height # Auto THEN Self("Base_parse_length", <<height, remaining_height>>)
        ELSE Min(Self("Base_calculate_auto_height", <<t, p, remaining_height, vp>>), remaining_height)

\* LayoutEngine._layout_block_children, the loop from child i on
Base_block_loop(st, t, p, vp, i, available_width, current_y, remaining_height) ==
    IF st.raised \/ i > Len(NodeAt(t, p).children) THEN st
    ELSE
    LET c == Append(p, i)
        child_height == Self("Base_calculate_child_height", <<t, c, remaining_height, vp>>)
        st1 == Self("Base_layout", <<st, t, c, vp, available_width, child_height, FALSE,
                           st.boxes[p].x + st.boxes[p].padding_left, current_y>>)
        cb == st1.boxes[c]
        child_used_height == cb.margin_top + cb.height + cb.margin_bottom
    IN  Self("Base_block_loop", <<st1, t, p, vp, i + 1, available_width,
                        current_y + child_used_height,
                        Max(0, remaining_height - child_used_height)>>)

\* LayoutEngine._layout_block_children
Base_layout_block_children(st, t, p, vp, available_width, available_height) ==
    Self("Base_block_loop", <<st, t, p, vp, 1, available_width,
                    st.boxes[p].y + st.boxes[p].padding_top, available_height>>)

\* LayoutEngine._layout_inline_children, the loop from child i on
Base_inline_loop(st, t, p, vp, i, available_width, available_height, current_x, current_y, line_height) ==
    IF st.raised \/ i > Len(NodeAt(t, p).children) THEN st
    ELSE
    LET c == Append(p, i)
        child == NodeAt(t, c)
        child_style == child.computed_style
        content_x == st.boxes[p].x + st.boxes[p].padding_left
        remaining_width == Max(0, available_width - (current_x - content_x))
        child_width == Get(child_style, "width", Auto)
        natural_width ==
            IF child_width = Auto
            THEN IF child.tag = "button" /\ child.text_content # <<>>
                 THEN Len(child.text_content) * 8
                      + Self("Base_parse_length", <<Get(child_style, "padding-left", Num(0)), 0>>)
                      + Self("Base_parse_length", <<Get(child_style, "padding-right", Num(0)), 0>>) + 20
                 ELSE Min(150, remaining_width)
            ELSE Self("Base_parse_length", <<child_width, available_width>>)
        child_total_width ==
            natural_width
            + Self("Base_parse_length", <<Get(child_style, "margin-left", Num(0)), available_width>>)
            + Self("Base_parse_length", <<Get(child_style, "margin-right", Num(0)), available_width>>)
        wrap == child_total_width > remaining_width /\ current_x > content_x
        break == current_x > content_x
    IN  IF Get(child_style, "display", "block") = "inline-block"
        THEN LET x0 == IF wrap THEN content_x ELSE current_x
                 y0 == IF wrap THEN current_y + line_height ELSE current_y
                 lh0 == IF wrap THEN 0 ELSE line_height
                 st1 == Self("Base_layout", <<st, t, c, vp, natural_width, available_height,
                                    FALSE, x0, y0>>)
                 cb == st1.boxes[c]
             IN  Self("Base_inline_loop", <<st1, t, p, vp, i + 1, available_width, available_height,
                                  x0 + child_total_width, y0,
                                  Max(lh0, cb.height + cb.margin_top + cb.margin_bottom)>>)
        ELSE LET x0 == IF break THEN content_x ELSE current_x
                 y0 == IF break THEN current_y + line_height ELSE current_y
                 st1 == Self("Base_layout", <<st, t, c, vp, available_width, available_height,
                                    FALSE, x0, y0>>)
                 cb == st1.boxes[c]
             IN  Self("Base_inline_loop", <<st1, t, p, vp, i + 1, available_width, available_height,
                                  x0, y0 + cb.height + cb.margin_top + cb.margin_bottom, 0>>)

\* LayoutEngine._layout_inline_children
Base_layout_inline_children(st, t, p, vp, available_width, available_height) ==
    Self("Base_inline_loop", <<st, t, p, vp, 1, available_width, available_height,
                     st.boxes[p].x + st.boxes[p].padding_left,
                     st.boxes[p].y + st.boxes[p].padding_top, 0>>)

\* LayoutEngine._layout_children
Base_layout_children(st, t, p, vp, available_width, available_height) ==
    LET element == NodeAt(t, p)
        style == element.computed_style
        has_inline_children ==
            \E i \in 1..Len(element.children) :
                Get(element.children[i].computed_style, "display", "block")
                    \in {"inline", "inline-block"}
    IN  IF element.children = <<>> THEN st
        ELSE IF Get(style, "display", "block") = "flex"
        THEN IF Get(style, "flex-direction", "row") = "row"
             THEN Self("Base_layout_flex_row", <<st, t, p, vp, available_width, available_height>>)
             ELSE Self("Base_layout_flex_column", <<st, t, p, vp, available_width, available_height>>)
        ELSE IF has_inline_children
        THEN Self("Base_layout_inline_children", <<st, t, p, vp, available_width, available_height>>)
        ELSE Self("Base_layout_block_children", <<st, t, p, vp, available_width, available_height>>)

\* ------------------------------------------ EnhancedLayoutEngine: lengths
\* EnhancedLayoutEngine.parse_enhanced_length
Enh_parse_enhanced_length(value, container_size, vp) ==
    IF ~Truthy(value) \/ value = Auto THEN 0
    ELSE IF EndsWith(value, <<"p", "x">>)
         THEN (IF FloatOk(value, 2) THEN value.num ELSE 0)
    ELSE IF EndsWith(value, <<"%">>)
         THEN (IF FloatOk(value, 1) THEN (container_size * value.num) \div 100 ELSE 0)
    ELSE IF EndsWith(value, <<"e", "m">>)
         THEN (IF FloatOk(value, 2) THEN value.num * 16 ELSE 0)
    ELSE IF EndsWith(value, <<"r", "e", "m">>)
         THEN (IF FloatOk(value, 3) THEN value.num * 16 ELSE 0)
    ELSE IF EndsWith(value, <<"v", "h">>)
         THEN (IF FloatOk(value, 2) THEN (vp.h * value.num) \div 100 ELSE 0)
    ELSE IF EndsWith(value, <<"v", "w">>)
         THEN (IF FloatOk(value, 2) THEN (vp.w * value.num) \div 100 ELSE 0)
    ELSE (IF FloatOk(value, 0) THEN value.num ELSE 0)

\* EnhancedLayoutEngine._parse_length_or_none applied to style.get(k)
Enh_parse_length_or_none(style, k, vp) ==
    IF ~Has(style, k) \/ style[k] = Auto THEN None
    ELSE Some(Self("Enh_parse_enhanced_length", <<style[k], 0, vp>>))

\* EnhancedLayoutEngine._calculate_enhanced_auto_height
\* (1.4 * font_size is (14 * font_size) \div 10)
Enh_calculate_enhanced_auto_height(element, vp) ==
    LET style == element.computed_style
        font_size == Self("Enh_parse_enhanced_length", <<Get(style, "font-size", Px(16)), 0, vp>>)
        lh == Get(style, "line-height", Num(0))
        line_height_value ==
            IF ~Has(style, "line-height") THEN (14 * font_size) \div 10
            ELSE IF EndsWith(lh, <<"p", "x">>) THEN Self("Enh_parse_enhanced_length", <<lh, 0, vp>>)
            ELSE IF FloatOk(lh, 0) THEN lh.num * font_size
            ELSE (14 * font_size) \div 10
        padding_height ==
            Self("Enh_parse_enhanced_length", <<Get(style, "padding-top", Num(0)), 0, vp>>)
            + Self("Enh_parse_enhanced_length", <<Get(style, "padding-bottom", Num(0)), 0, vp>>)
        display == Get(style, "display", "block")
    IN  IF element.text_content # <<>> THEN Max(line_height_value + padding_height, 40)
        ELSE IF display = "grid" THEN 200
        ELSE IF display = "flex" THEN 100
        ELSE IF element.tag = "h1" THEN 60
        ELSE IF element.tag = "h2" THEN 50
        ELSE IF element.tag \in {"input", "button"} THEN 40
        ELSE IF element.tag = "div" THEN 80
        ELSE IF element.tag \in {"section", "main", "aside"} THEN 150
        ELSE 50

\* -------------------------------------- EnhancedLayoutEngine: box model
\* EnhancedLayoutBox(): the LayoutBox fields and the enhanced ones the layout reads
EnhancedLayoutBox ==
    [x |-> 0, y |-> 0, width |-> 0, height |-> 0,
     margin_top |-> 0, margin_right |-> 0, margin_bottom |-> 0, margin_left |-> 0,
     padding_top |-> 0, padding_right |-> 0, padding_bottom |-> 0, padding_left |-> 0,
     border_width |-> 0,
     position_type |-> "static",
     top |-> None, right |-> None, bottom |-> None, left |-> None,
     min_width |-> None, max_width |-> None, min_height |-> None, max_height |-> None,
     flex_grow |-> 0, flex_shrink |-> 1, flex_basis |-> None, order |-> 0,
     grid_area |-> "auto"]

\* layout(): EnhancedLayoutBox(), the is_root assignments, then
\* EnhancedLayoutEngine._calculate_box_model (the base box model, and a
\* minimum size for a grid container)
Enh_calculate_box_model(t, p, container_width, container_height, vp) ==
    LET bm == Self("Base_calculate_box_model", <<t, p, container_width, container_height, vp>>)
        grid == Get(NodeAt(t, p).computed_style, "display", "block") = "grid"
        w == IF grid /\ bm.width <= 0
             THEN Max(200, container_width \div 2) ELSE bm.width
        h == IF grid /\ bm.height <= 0
             THEN Max(100, (3 * container_height) \div 10) ELSE bm.height
    IN  [f \in DOMAIN EnhancedLayoutBox |->
            IF f = "width" THEN w
            ELSE IF f = "height" THEN h
            ELSE IF f \in DOMAIN bm THEN bm[f]
            ELSE EnhancedLayoutBox[f]]

PositionTypes == {"static", "relative", "absolute", "fixed", "sticky"}

\* EnhancedLayoutEngine._apply_enhanced_style_to_layout_box: [err, box].
\* float() and int() of flex-grow, flex-shrink, order and opacity raise
\* ValueError on a non-numeric value; the fields assigned before stay.
Enh_apply_enhanced_style_to_layout_box(box, style, vp) ==
    LET position == Get(style, "position", "static")
        b1 == [box EXCEPT
                !.position_type = IF position \in PositionTypes THEN position ELSE "static",
                !.grid_area = Get(style, "grid-area", "auto"),
                !.top = Self("Enh_parse_length_or_none", <<style, "top", vp>>),
                !.right = Self("Enh_parse_length_or_none", <<style, "right", vp>>),
                !.bottom = Self("Enh_parse_length_or_none", <<style, "bottom", vp>>),
                !.left = Self("Enh_parse_length_or_none", <<style, "left", vp>>),
                !.min_width = Self("Enh_parse_length_or_none", <<style, "min-width", vp>>),
                !.max_width = Self("Enh_parse_length_or_none", <<style, "max-width", vp>>),
                !.min_height = Self("Enh_parse_length_or_none", <<style, "min-height", vp>>),
                !.max_height = Self("Enh_parse_length_or_none", <<style, "max-height", vp>>)]
        g == Get(style, "flex-grow", Num(0))
        s == Get(style, "flex-shrink", Num(1))
        o == Get(style, "order", Num(0))
        b2 == [b1 EXCEPT !.flex_grow = g.num]
        b3 == [b2 EXCEPT !.flex_shrink = s.num,
                         !.flex_basis = Self("Enh_parse_length_or_none", <<style, "flex-basis", vp>>)]
        b4 == [b3 EXCEPT !.order = o.num]
    IN  IF ~FloatOk(g, 0) THEN [err |-> TRUE, box |-> b1]
        ELSE IF ~FloatOk(s, 0) THEN [err |-> TRUE, box |-> b2]
        ELSE IF ~FloatOk(o, 0) THEN [err |-> TRUE, box |-> b3]
        ELSE [err |-> ~FloatOk(Get(style, "opacity", Num(1)), 0), box |-> b4]

\* min/max clamp of _calculate_enhanced_dimensions
Clamp(v, lo, hi) ==
    LET a == IF lo.some THEN Max(v, lo.v) ELSE v
    IN  IF hi.some THEN Min(a, hi.v) ELSE a

\* EnhancedLayoutEngine._calculate_enhanced_dimensions
Enh_calculate_enhanced_dimensions(box, element, container_width, container_height, vp) ==
    LET style == element.computed_style
        width == Get(style, "width", Auto)
        height == Get(style, "height", Auto)
        available_width == container_width - box.margin_left - box.margin_right
        min_width == Len(element.text_content) * 8 + box.padding_left + box.padding_right + 20
        w == IF width = Auto
             THEN IF element.tag = "button" /\ element.text_content # <<>>
                  THEN Max(min_width, Min(available_width, 200))
                  ELSE Max(0, available_width)
             ELSE Self("Enh_parse_enhanced_length", <<width, container_width, vp>>)
        h == IF height = Auto
             THEN IF Get(style, "display", "block") = "grid"
                  THEN Max(container_height - box.margin_top - box.margin_bottom, 100)
                  ELSE Self("Enh_calculate_enhanced_auto_height", <<element, vp>>)
             ELSE Self("Enh_parse_enhanced_length", <<height, container_height, vp>>)
    IN  [box EXCEPT !.width = Clamp(w, box.min_width, box.max_width),
                    !.height = Clamp(h, box.min_height, box.max_height)]

\* EnhancedLayoutEngine._position_absolute_element
Enh_position_absolute_element(box, container_width, container_height) ==
    [box EXCEPT
        !.x = IF box.left.some THEN box.left.v
              ELSE IF box.right.some THEN container_width - box.right.v - box.width
              ELSE 0,
        !.y = IF box.top.some THEN box.top.v
              ELSE IF box.bottom.some THEN container_height - box.bottom.v - box.height
              ELSE 0]

\* EnhancedLayoutEngine._apply_relative_positioning
Enh_apply_relative_positioning(box) ==
    [box EXCEPT
        !.x = IF box.left.some THEN box.x + box.left.v
              ELSE IF box.right.some THEN box.x - box.right.v
              ELSE box.x,
        !.y = IF box.top.some THEN box.y + box.top.v
              ELSE IF box.bottom.some THEN box.y - box.bottom.v
              ELSE box.y]

\* EnhancedLayoutEngine._handle_enhanced_positioning: the positioned box
\* (the append to positioned_elements is made by Enh_layout)
Enh_handle_enhanced_positioning(box, container_width, container_height, is_root, parent_x, parent_y) ==
    IF box.position_type \in {"absolute", "fixed"}
    THEN Self("Enh_position_absolute_element", <<box, container_width, container_height>>)
    ELSE LET b == [box EXCEPT
                    !.x = IF is_root THEN box.margin_left ELSE parent_x + box.margin_left,
                    !.y = IF is_root THEN box.margin_top ELSE parent_y + box.margin_top]
         IN  IF b.position_type = "relative" THEN Self("Enh_apply_relative_positioning", <<b>>) ELSE b

\* --------------------------------------- EnhancedLayoutEngine: flexbox
FlexDirections == {"row", "row-reverse", "column", "column-reverse"}
JustifyContents ==
    {"flex-start", "flex-end", "center", "space-between", "space-around", "space-evenly"}
AlignItemsValues == {"stretch", "flex-start", "flex-end", "center", "baseline"}

Reverse(s) == [i \in 1..Len(s) |-> s[Len(s) + 1 - i]]

\* sorted(range, key): a stable sort of the indexes 1..Len(keys) by keys[i]
RECURSIVE StableSortFrom(_, _, _)
StableSortFrom(sorted, i, keys) ==
    IF i > Len(keys) THEN sorted
    ELSE LET before(e) == keys[e] <= keys[i]
             after(e) == keys[e] > keys[i]
         IN  StableSortFrom(SelectSeq(sorted, before) \o <<i>> \o SelectSeq(sorted, after),
                            i + 1, keys)

\* _layout_flex_children, "Sort children by order": the key of child i is
\* the order field of the layout_box the child carries when the sort runs
\* (0 when it carries none); the result is the children's paths, sorted.
Enh_flex_children(bx, t, p) ==
    LET n == Len(NodeAt(t, p).children)
        keys == [i \in 1..n |->
                    IF Append(p, i) \in DOMAIN bx /\ "order" \in DOMAIN bx[Append(p, i)]
                    THEN bx[Append(p, i)].order ELSE 0]
        sorted == StableSortFrom(<<>>, 1, keys)
    IN  [k \in 1..n |-> Append(p, sorted[k])]

MainOf(b, is_row) == IF is_row THEN b.width ELSE b.height
CrossOf(b, is_row) == IF is_row THEN b.height ELSE b.width
WithMain(b, is_row, v) == IF is_row THEN [b EXCEPT !.width = v] ELSE [b EXCEPT !.height = v]
WithCross(b, is_row, v) == IF is_row THEN [b EXCEPT !.height = v] ELSE [b EXCEPT !.width = v]
WithMainPos(b, is_row, v) == IF is_row THEN [b EXCEPT !.x = v] ELSE [b EXCEPT !.y = v]
WithCrossPos(b, is_row, v) == IF is_row THEN [b EXCEPT !.y = v] ELSE [b EXCEPT !.x = v]

\* EnhancedLayoutEngine._calculate_flex_sizes: the boxes with the main size
\* of every child in kids grown or shrunk
Enh_calculate_flex_sizes(bx, kids, main_size, gap, is_row) ==
    LET n == Len(kids)
        available_size == main_size - gap * Max(0, n - 1)
        base_size(k) == IF bx[kids[k]].flex_basis.some THEN bx[kids[k]].flex_basis.v
                        ELSE MainOf(bx[kids[k]], is_row)
        used_space == SumSeq([k \in 1..n |-> base_size(k)])
        total_flex_grow == SumSeq([k \in 1..n |-> bx[kids[k]].flex_grow])
        total_flex_shrink == SumSeq([k \in 1..n |-> bx[kids[k]].flex_shrink])
        free_space == available_size - used_space
        new_main(b) ==
            IF free_space > 0 /\ total_flex_grow > 0
            THEN MainOf(b, is_row) + (b.flex_grow * free_space) \div total_flex_grow
            ELSE IF free_space < 0 /\ total_flex_shrink > 0
            THEN Max(0, MainOf(b, is_row) - (b.flex_shrink * Abs(free_space)) \div total_flex_shrink)
            ELSE MainOf(b, is_row)
    IN  [q \in DOMAIN bx |->
            IF \E k \in 1..n : kids[k] = q
            THEN WithMain(bx[q], is_row, new_main(bx[q])) ELSE bx[q]]

\* JustifySpacing with the whole share of an item, not half of it, put before
\* the first item of a space-around line
JustifySpacing_whole_share_first(keyword, origin, free_space, gap, n) ==
    CASE keyword = "flex-start" -> [start |-> origin, spacing |-> gap]
      [] keyword = "flex-end" -> [start |-> origin + free_space, spacing |-> gap]
      [] keyword = "center" -> [start |-> origin + free_space \div 2, spacing |-> gap]
      [] keyword = "space-between" ->
            [start |-> origin,
             spacing |-> gap + (IF n > 1 THEN free_space \div Max(1, n - 1) ELSE 0)]
      [] keyword = "space-around" ->
            [start |-> origin + free_space \div n, spacing |-> gap + free_space \div n]
      [] OTHER ->
            [start |-> origin + free_space \div (n + 1),
             spacing |-> gap + free_space \div (n + 1)]

\* The start of the first item and the spacing between items for a
\* justify-content (or align-content) keyword: [start, spacing]
JustifySpacing(keyword, origin, free_space, gap, n) ==
    CASE keyword = "flex-start" -> [start |-> origin, spacing |-> gap]
      [] keyword = "flex-end" -> [start |-> origin + free_space, spacing |-> gap]
      [] keyword = "center" -> [start |-> origin + free_space \div 2, spacing |-> gap]
      [] keyword = "space-between" ->
            [start |-> origin,
             spacing |-> gap + (IF n > 1 THEN free_space \div Max(1, n - 1) ELSE 0)]
      [] keyword = "space-around" ->
            [start |-> origin + (free_space \div n) \div 2, spacing |-> gap + free_space \div n]
      [] OTHER ->
            [start |-> origin + free_space \div (n + 1),
             spacing |-> gap + free_space \div (n + 1)]

\* _position_flex_items_single_line, "Position items", from item k on
Enh_position_single_loop(bx, kids, k, current_main, item_spacing, align_items, is_row, content_x, content_y, cross_size) ==
    IF k > Len(kids) THEN bx
    ELSE
    LET b == bx[kids[k]]
        b1 == WithMainPos(b, is_row, current_main)
        cross_origin == IF is_row THEN content_y ELSE content_x
        item_cross_size == CrossOf(b1, is_row)
        b2 == CASE align_items = "flex-start" -> WithCrossPos(b1, is_row, cross_origin)
                [] align_items = "flex-end" ->
                      WithCrossPos(b1, is_row, cross_origin + cross_size - item_cross_size)
                [] align_items = "center" ->
                      WithCrossPos(b1, is_row,
                                   cross_origin + (cross_size - item_cross_size) \div 2)
                [] OTHER ->
                      WithCrossPos(WithCross(b1, is_row, cross_size), is_row, cross_origin)
    IN  Self("Enh_position_single_loop", <<[bx EXCEPT ![kids[k]] = b2], kids, k + 1,
                                 current_main + MainOf(b, is_row) + item_spacing,
                                 item_spacing, align_items, is_row,
                                 content_x, content_y, cross_size>>)

\* EnhancedLayoutEngine._position_flex_items_single_line
Enh_position_flex_items_single_line(bx, kids, justify_content, align_items, gap, is_row, content_x, content_y, content_width, content_height) ==
    LET n == Len(kids)
        main_size == IF is_row THEN content_width ELSE content_height
        cross_size == IF is_row THEN content_height ELSE content_width
        total == SumSeq([k \in 1..n |-> MainOf(bx[kids[k]], is_row)])
        free_space == main_size - total - gap * Max(0, n - 1)
        js == JustifySpacing(justify_content, IF is_row THEN content_x ELSE content_y,
                             free_space, gap, n)
    IN  IF n = 0 THEN bx
        ELSE Self("Enh_position_single_loop", <<bx, kids, 1, js.start, js.spacing, align_items,
                                      is_row, content_x, content_y, cross_size>>)

\* EnhancedLayoutEngine._layout_flex_single_line
Enh_layout_flex_single_line(bx, container, kids, justify_content, align_items, gap, is_row, is_reverse) ==
    LET content_width == container.width - container.padding_left - container.padding_right
        content_height == container.height - container.padding_top - container.padding_bottom
        sized == Self("Enh_calculate_flex_sizes", <<bx, kids,
                    IF is_row THEN content_width ELSE content_height, gap, is_row>>)
    IN  Self("Enh_position_flex_items_single_line", <<
            sized, IF is_reverse THEN Reverse(kids) ELSE kids,
            justify_content, align_items, gap, is_row,
            container.x + container.padding_left, container.y + container.padding_top,
            content_width, content_height>>)

\* EnhancedLayoutEngine._calculate_flex_lines, from item k on
Enh_flex_lines_loop(bx, kids, k, lines, current_line, current_main_size, main_size_gap, is_row) ==
    IF k > Len(kids)
    THEN (IF current_line.items # <<>> THEN Append(lines, current_line) ELSE lines)
    ELSE
    LET item_main_size == MainOf(bx[kids[k]], is_row)
        item_cross_size == CrossOf(bx[kids[k]], is_row)
        needed_size == item_main_size
                       + (IF current_line.items # <<>> THEN main_size_gap.gap ELSE 0)
    IN  IF current_line.items # <<>> /\ current_main_size + needed_size > main_size_gap.main_size
        THEN Self("Enh_flex_lines_loop", <<bx, kids, k + 1, Append(lines, current_line),
                                 [items |-> <<kids[k]>>, cross_size |-> item_cross_size],
                                 item_main_size, main_size_gap, is_row>>)
        ELSE Self("Enh_flex_lines_loop", <<bx, kids, k + 1, lines,
                                 [items |-> Append(current_line.items, kids[k]),
                                  cross_size |-> Max(current_line.cross_size, item_cross_size)],
                                 current_main_size + needed_size, main_size_gap, is_row>>)

\* EnhancedLayoutEngine._calculate_flex_lines
Enh_calculate_flex_lines(bx, kids, main_size, gap, is_row) ==
    Self("Enh_flex_lines_loop", <<bx, kids, 1, <<>>, [items |-> <<>>, cross_size |-> 0], 0,
                        [main_size |-> main_size, gap |-> gap], is_row>>)

\* EnhancedLayoutEngine._position_flex_lines: every line with its
\* cross_size (stretched), cross_start and main_start
Enh_position_flex_lines(lines, align_content, cross_gap, is_row, content_x, content_y, content_width, content_height) ==
    LET n == Len(lines)
        cross_size == IF is_row THEN content_height ELSE content_width
        origin == IF is_row THEN content_y ELSE content_x
        free_space == cross_size - SumSeq([l \in 1..n |-> lines[l].cross_size])
                      - cross_gap * Max(0, n - 1)
        js == IF align_content \in JustifyContents
              THEN JustifySpacing(align_content, origin, free_space, cross_gap, n)
              ELSE [start |-> origin, spacing |-> cross_gap]
        size(l) == IF align_content \notin JustifyContents /\ free_space > 0
                   THEN lines[l].cross_size + free_space \div n
                   ELSE lines[l].cross_size
    IN  [l \in 1..n |->
            [items |-> lines[l].items,
             cross_size |-> size(l),
             cross_start |-> js.start + SumSeq([m \in 1..(l - 1) |-> size(m) + js.spacing]),
             main_start |-> IF is_row THEN content_x ELSE content_y]]

\* EnhancedLayoutEngine._position_flex_items_in_line
Enh_position_flex_items_in_line(bx, line, container, justify_content, align_items, gap, is_row) ==
    LET n == Len(line.items)
        main_size == IF is_row
                     THEN container.width - container.padding_left - container.padding_right
                     ELSE container.height - container.padding_top - container.padding_bottom
        total_item_size == SumSeq([k \in 1..n |-> MainOf(bx[line.items[k]], is_row)])
        free_space == main_size - total_item_size - gap * Max(0, n - 1)
        js == JustifySpacing(justify_content, line.main_start, free_space, gap, n)
    IN  Self("Enh_position_single_loop", <<bx, line.items, 1, js.start, js.spacing, align_items,
                                 is_row, line.cross_start, line.cross_start, line.cross_size>>)

Enh_size_lines(bx, lines, l, main_size, main_gap, is_row) ==
    IF l > Len(lines) THEN bx
    ELSE Self("Enh_size_lines", <<Self("Enh_calculate_flex_sizes", <<bx, lines[l].items, main_size, main_gap, is_row>>),
                        lines, l + 1, main_size, main_gap, is_row>>)

Enh_place_lines(bx, lines, l, container, justify_content, align_items, main_gap, is_row) ==
    IF l > Len(lines) THEN bx
    ELSE Self("Enh_place_lines", <<
            Self("Enh_position_flex_items_in_line", <<bx, lines[l], container, justify_content,
                                            align_items, main_gap, is_row>>),
            lines, l + 1, container, justify_content, align_items, main_gap, is_row>>)

\* EnhancedLayoutEngine._layout_flex_multi_line
Enh_layout_flex_multi_line(bx, container, kids, justify_content, align_items, align_content, gaps, flex_wrap, is_row, is_reverse) ==
    LET content_width == container.width - container.padding_left - container.padding_right
        content_height == container.height - container.padding_top - container.padding_bottom
        main_size == IF is_row THEN content_width ELSE content_height
        l0 == Self("Enh_calculate_flex_lines", <<bx, kids, main_size, gaps.main, is_row>>)
        l1 == IF flex_wrap = "wrap-reverse" THEN Reverse(l0) ELSE l0
        l2 == [l \in 1..Len(l1) |->
                [items |-> IF is_reverse THEN Reverse(l1[l].items) ELSE l1[l].items,
                 cross_size |-> l1[l].cross_size]]
        sized == Self("Enh_size_lines", <<bx, l2, 1, main_size, gaps.main, is_row>>)
        l3 == Self("Enh_position_flex_lines", <<l2, align_content, gaps.cross, is_row,
                                      container.x + container.padding_left,
                                      container.y + container.padding_top,
                                      content_width, content_height>>)
    IN  Self("Enh_place_lines", <<sized, l3, 1, container, justify_content, align_items,
                        gaps.main, is_row>>)

\* ------------------------------------------ EnhancedLayoutEngine: grid
\* float(track[:-k]) of a track that ends with a k-character unit
TrackFloat(track, k) == IF FloatOk(track, k) THEN Some(track.num) ELSE None

\* _calculate_grid_track_sizes, first pass: [size, fr] of one track, where
\* fr is the track's fr value when it joins fr_tracks
Enh_track_first_pass(track, container_size) ==
    IF EndsWith(track, <<"f", "r">>)
    THEN [size |-> 0, fr |-> TrackFloat(track, 2)]
    ELSE IF track = Auto THEN [size |-> 0, fr |-> None]
    ELSE IF EndsWith(track, <<"p", "x">>)
    THEN [size |-> IF FloatOk(track, 2) THEN track.num ELSE 0, fr |-> None]
    ELSE IF EndsWith(track, <<"%">>)
    THEN [size |-> IF FloatOk(track, 1) THEN (container_size * track.num) \div 100 ELSE 0,
          fr |-> None]
    ELSE [size |-> IF FloatOk(track, 0) THEN track.num ELSE 0, fr |-> None]

\* EnhancedLayoutEngine._calculate_grid_track_sizes
Enh_calculate_grid_track_sizes(tracks, container_size, gap) ==
    IF tracks = <<>> THEN <<container_size>>
    ELSE
    LET n == Len(tracks)
        total_gap == gap * Max(0, n - 1)
        available_size == Max(0, container_size - total_gap)
        first == [i \in 1..n |-> Self("Enh_track_first_pass", <<tracks[i], container_size>>)]
        used_size == SumSeq([i \in 1..n |-> first[i].size])
        remaining_size == Max(0, available_size - used_size)
        total_fr == SumSeq([i \in 1..n |-> IF first[i].fr.some THEN first[i].fr.v ELSE 0])
        second == [i \in 1..n |->
                    IF total_fr > 0 /\ remaining_size > 0 /\ first[i].fr.some
                    THEN (first[i].fr.v * remaining_size) \div total_fr
                    ELSE first[i].size]
        auto_count == Cardinality({i \in 1..n : tracks[i] = Auto})
        auto_remaining == Max(0, available_size - SumSeq(second))
        third == [i \in 1..n |->
                    IF tracks[i] = Auto THEN auto_remaining \div auto_count ELSE second[i]]
    IN  [i \in 1..n |-> Max(0, third[i])]

\* EnhancedLayoutEngine._parse_grid_template_areas: the value is the list of
\* its quoted rows, each row the list of its names; a row without a name is
\* dropped
Enh_parse_grid_template_areas(areas_value) ==
    SelectSeq(areas_value, LAMBDA row : row # <<>>)

\* EnhancedLayoutEngine._create_grid_area_map: area name -> the 0-based
\* <<row_start, col_start, row_end, col_end>>
Enh_create_grid_area_map(grid_areas) ==
    LET all == UNION {{<<r, c>> : c \in 1..Len(grid_areas[r])} : r \in 1..Len(grid_areas)}
        cells(name) == {rc \in all : grid_areas[rc[1]][rc[2]] = name}
        names == {grid_areas[rc[1]][rc[2]] : rc \in all}
        min(S) == CHOOSE x \in S : \A y \in S : x <= y
        max(S) == CHOOSE x \in S : \A y \in S : x >= y
    IN  [name \in names \ {".", "none"} |->
            <<min({rc[1] : rc \in cells(name)}) - 1, min({rc[2] : rc \in cells(name)}) - 1,
              max({rc[1] : rc \in cells(name)}), max({rc[2] : rc \in cells(name)})>>]

\* ------------------------------------------ EnhancedLayoutEngine: layout

\* EnhancedLayoutEngine._place_grid_item_at_position; g carries content_x,
\* content_y, column_sizes, row_sizes and gap; a is the 0-based
\* <<row_start, col_start, row_end, col_end>>
Enh_place_grid_item_at_position(st, t, c, vp, a, g) ==
    IF a[1] >= Len(g.row_sizes) \/ a[2] >= Len(g.column_sizes)
       \/ a[3] > Len(g.row_sizes) \/ a[4] > Len(g.column_sizes)
    THEN st
    ELSE
    LET x == g.content_x
             + SumSeq([i \in 1..a[2] |-> g.column_sizes[i] + (IF i - 1 > 0 THEN g.gap ELSE 0)])
        y == g.content_y
             + SumSeq([i \in 1..a[1] |-> g.row_sizes[i] + (IF i - 1 > 0 THEN g.gap ELSE 0)])
        width == SumSeq([i \in 1..(a[4] - a[2]) |-> g.column_sizes[a[2] + i]])
                 + (IF a[4] - a[2] > 1 THEN g.gap * (a[4] - a[2] - 1) ELSE 0)
        height == SumSeq([i \in 1..(a[3] - a[1]) |-> g.row_sizes[a[1] + i]])
                  + (IF a[3] - a[1] > 1 THEN g.gap * (a[3] - a[1] - 1) ELSE 0)
    IN  Self("Enh_layout", <<st, t, c, vp, Max(0, width), Max(0, height), FALSE, x, y>>)

\* _layout_grid_children, "Filter valid children"
Enh_valid_children(t, p) ==
    SelectSeq([i \in 1..Len(NodeAt(t, p).children) |-> Append(p, i)],
              LAMBDA c : NodeAt(t, c).tag \notin {"comment", "text"})

\* _layout_grid_children, "Place children with explicit grid-area", from
\* valid child k on: [st, used_cells, auto_placement_children]
Enh_grid_named_loop(acc, t, valid, k, vp, area_map, g) ==
    IF acc.st.raised \/ k > Len(valid) THEN acc
    ELSE
    LET c == valid[k]
        grid_area == Get(NodeAt(t, c).computed_style, "grid-area", "auto")
        a == area_map[grid_area]
        named == grid_area # "auto" /\ grid_area \in DOMAIN area_map
        inside == /\ a[1] < Len(g.row_sizes) /\ a[2] < Len(g.column_sizes)
                  /\ a[3] <= Len(g.row_sizes) /\ a[4] <= Len(g.column_sizes)
    IN  IF named /\ inside
        THEN Self("Enh_grid_named_loop", <<
                [st |-> Self("Enh_place_grid_item_at_position", <<acc.st, t, c, vp, a, g>>),
                 used_cells |-> acc.used_cells
                                \cup ((a[1]..(a[3] - 1)) \X (a[2]..(a[4] - 1))),
                 auto_placement_children |-> acc.auto_placement_children],
                t, valid, k + 1, vp, area_map, g>>)
        ELSE Self("Enh_grid_named_loop", <<
                [acc EXCEPT !.auto_placement_children = Append(@, c)],
                t, valid, k + 1, vp, area_map, g>>)

\* _layout_grid_children, "Find next available cell": the scan from
\* (current_row, current_col); [placed, current_row, current_col] is the
\* free cell found, or current_row = the number of rows when there is none
Enh_next_free_cell(used_cells, current_row, current_col, rows, cols) ==
    IF current_row >= rows
    THEN [placed |-> FALSE, current_row |-> current_row, current_col |-> current_col]
    ELSE IF current_col >= cols
    THEN Self("Enh_next_free_cell", <<used_cells, current_row + 1, 0, rows, cols>>)
    ELSE IF <<current_row, current_col>> \notin used_cells
    THEN [placed |-> TRUE, current_row |-> current_row, current_col |-> current_col]
    ELSE Self("Enh_next_free_cell", <<used_cells, current_row, current_col + 1, rows, cols>>)

\* _layout_grid_children, "Auto-place remaining children", from child k on
Enh_grid_auto_loop(st, t, auto, k, vp, used_cells, current_row, current_col, g) ==
    IF st.raised \/ k > Len(auto) THEN st
    ELSE
    LET f == Self("Enh_next_free_cell", <<used_cells, current_row, current_col,
                                Len(g.row_sizes), Len(g.column_sizes)>>)
    IN  IF f.placed
        THEN Self("Enh_grid_auto_loop", <<
                Self("Enh_place_grid_item_at_position", <<
                    st, t, auto[k], vp,
                    <<f.current_row, f.current_col, f.current_row + 1, f.current_col + 1>>, g>>),
                t, auto, k + 1, vp, used_cells \cup {<<f.current_row, f.current_col>>},
                f.current_row, f.current_col + 1, g>>)
        ELSE Self("Enh_grid_auto_loop", <<
                Self("Enh_layout", <<st, t, auto[k], vp, 100, 50, FALSE,
                           g.content_x, g.content_y + f.current_row * 50>>),
                t, auto, k + 1, vp, used_cells, f.current_row, f.current_col, g>>)

\* _parse_grid_template: the value is the list of its whitespace-separated
\* tracks ('none' when the property is absent gives no track)
Enh_parse_grid_template(style, k) == Get(style, k, <<>>)

\* EnhancedLayoutEngine._layout_grid_children
Enh_layout_grid_children(st, t, p, vp) ==
    LET element == NodeAt(t, p)
        style == element.computed_style
        gap == Self("Enh_parse_enhanced_length", <<Get(style, "gap", Num(0)), 0, vp>>)
        grid_areas == Self("Enh_parse_grid_template_areas", <<Get(style, "grid-template-areas", <<>>)>>)
        one_fr(n) == [i \in 1..n |-> Fr(1)]
        c0 == Self("Enh_parse_grid_template", <<style, "grid-template-columns">>)
        r0 == Self("Enh_parse_grid_template", <<style, "grid-template-rows">>)
        c1 == IF grid_areas # <<>> /\ c0 = <<>> THEN one_fr(Len(grid_areas[1])) ELSE c0
        r1 == IF grid_areas # <<>> /\ r0 = <<>> THEN one_fr(Len(grid_areas)) ELSE r0
        columns == IF c1 = <<>> THEN one_fr(1) ELSE c1
        rows == IF r1 = <<>> THEN one_fr(1) ELSE r1
        box == st.boxes[p]
        container_width == Max(100, box.width - box.padding_left - box.padding_right)
        container_height == Max(100, box.height - box.padding_top - box.padding_bottom)
        g == [content_x |-> box.x + box.padding_left,
              content_y |-> box.y + box.padding_top,
              column_sizes |-> Self("Enh_calculate_grid_track_sizes", <<columns, container_width, gap>>),
              row_sizes |-> Self("Enh_calculate_grid_track_sizes", <<rows, container_height, gap>>),
              gap |-> gap]
        area_map == IF grid_areas # <<>> THEN Self("Enh_create_grid_area_map", <<grid_areas>>) ELSE <<>>
        named == Self("Enh_grid_named_loop", <<
                    [st |-> st, used_cells |-> {}, auto_placement_children |-> <<>>],
                    t, Self("Enh_valid_children", <<t, p>>), 1, vp, area_map, g>>)
    IN  IF element.children = <<>> THEN st
        ELSE Self("Enh_grid_auto_loop", <<named.st, t, named.auto_placement_children, 1, vp,
                                named.used_cells, 0, 0, g>>)

\* EnhancedLayoutEngine._layout_normal_children, the loop from child i on
Enh_normal_loop(st, t, p, vp, i, available_width, available_height, current_y) ==
    IF st.raised \/ i > Len(NodeAt(t, p).children) THEN st
    ELSE
    LET c == Append(p, i)
        st1 == Self("Enh_layout", <<st, t, c, vp, available_width, available_height, FALSE,
                          st.boxes[p].x + st.boxes[p].padding_left, current_y>>)
        cb == st1.boxes[c]
    IN  Self("Enh_normal_loop", <<st1, t, p, vp, i + 1, available_width, available_height,
                        current_y + cb.margin_top + cb.height + cb.margin_bottom>>)

\* EnhancedLayoutEngine._layout_normal_children
Enh_layout_normal_children(st, t, p, vp) ==
    LET box == st.boxes[p]
    IN  Self("Enh_normal_loop", <<st, t, p, vp, 1,
                        box.width - box.padding_left - box.padding_right,
                        box.height - box.padding_top - box.padding_bottom,
                        box.y + box.padding_top>>)

\* _layout_flex_children, "First layout all children to get their natural
\* sizes", from flex child k on
Enh_flex_natural(st, t, kids, k, vp, child_width, child_height) ==
    IF st.raised \/ k > Len(kids) THEN st
    ELSE Self("Enh_flex_natural", <<
            Self("Enh_layout", <<st, t, kids[k], vp, child_width, child_height, FALSE, 0, 0>>),
            t, kids, k + 1, vp, child_width, child_height>>)

\* EnhancedLayoutEngine._layout_flex_children
Enh_layout_flex_children(st, t, p, vp) ==
    LET style == NodeAt(t, p).computed_style
        flex_direction == Get(style, "flex-direction", "row")
        flex_wrap == Get(style, "flex-wrap", "nowrap")
        justify_content == Get(style, "justify-content", "flex-start")
        align_items == Get(style, "align-items", "stretch")
        align_content == Get(style, "align-content", "stretch")
        gap == Self("Enh_parse_enhanced_length", <<Get(style, "gap", Num(0)), 0, vp>>)
        row_gap == IF Has(style, "row-gap")
                   THEN Self("Enh_parse_enhanced_length", <<style["row-gap"], 0, vp>>) ELSE gap
        column_gap == IF Has(style, "column-gap")
                      THEN Self("Enh_parse_enhanced_length", <<style["column-gap"], 0, vp>>) ELSE gap
        flex_children == Self("Enh_flex_children", <<st.boxes, t, p>>)
        is_row == flex_direction \in {"row", "row-reverse"}
        is_reverse == flex_direction \in {"row-reverse", "column-reverse"}
        box == st.boxes[p]
        content_width == box.width - box.padding_left - box.padding_right
        content_height == box.height - box.padding_top - box.padding_bottom
        main_gap == IF is_row THEN column_gap ELSE row_gap
        cross_gap == IF is_row THEN row_gap ELSE column_gap
        st1 == Self("Enh_flex_natural", <<st, t, flex_children, 1, vp, content_width, content_height>>)
    IN  IF NodeAt(t, p).children = <<>> THEN st
        ELSE IF \/ flex_direction \notin FlexDirections
                \/ justify_content \notin JustifyContents
                \/ align_items \notin AlignItemsValues
        THEN Raise(st)
        ELSE IF st1.raised THEN st1
        ELSE IF flex_wrap = "nowrap"
        THEN [st1 EXCEPT !.boxes = Self("Enh_layout_flex_single_line", <<
                    st1.boxes, box, flex_children, justify_content, align_items,
                    main_gap, is_row, is_reverse>>)]
        ELSE [st1 EXCEPT !.boxes = Self("Enh_layout_flex_multi_line", <<
                    st1.boxes, box, flex_children, justify_content, align_items,
                    align_content, [main |-> main_gap, cross |-> cross_gap],
                    flex_wrap, is_row, is_reverse>>)]

\* EnhancedLayoutEngine.layout
Enh_layout(st, t, p, vp, container_width, container_height, is_root, parent_x, parent_y) ==
    IF st.raised THEN st
    ELSE
    LET element == NodeAt(t, p)
        style == element.computed_style
        b0 == Self("Enh_calculate_box_model", <<t, p, container_width, container_height, vp>>)
        ap == Self("Enh_apply_enhanced_style_to_layout_box", <<b0, style, vp>>)
        b1 == Self("Enh_calculate_enhanced_dimensions", <<ap.box, element, container_width,
                                                container_height, vp>>)
        b2 == Self("Enh_handle_enhanced_positioning", <<b1, container_width, container_height,
                                              is_root, parent_x, parent_y>>)
        st1 == [SetBox(st, p, b2) EXCEPT
                    !.positioned_elements =
                        IF b2.position_type \in {"absolute", "fixed"} THEN Append(@, p) ELSE @]
        display == Get(style, "display", "block")
    IN  IF ap.err THEN Raise(SetBox(st, p, ap.box))
        ELSE IF display = "flex" THEN Self("Enh_layout_flex_children", <<st1, t, p, vp>>)
        ELSE IF display = "grid" THEN Self("Enh_layout_grid_children", <<st1, t, p, vp>>)
        ELSE IF element.children = <<>> THEN st1
        ELSE Self("Enh_layout_normal_children", <<st1, t, p, vp>>)

\* ------------------------------- UnifiedLayoutEngine: grid track parser
\* UnifiedLayoutEngine._parse_grid_tracks_working: [err, sizes]; float() of a
\* malformed px or fr track raises ValueError (err)
Uni_parse_grid_tracks_working(tracks_str, available_space, count, gap) ==
    LET tracks == [i \in 1..count |-> IF i <= Len(tracks_str) THEN tracks_str[i] ELSE Fr(1)]
        is_px(i) == EndsWith(tracks[i], <<"p", "x">>)
        is_fr(i) == ~is_px(i) /\ EndsWith(tracks[i], <<"f", "r">>)
        fr(i) == IF is_px(i) THEN 0 ELSE IF is_fr(i) THEN tracks[i].num ELSE 1
        used_space == SumSeq([i \in 1..count |-> IF is_px(i) THEN tracks[i].num ELSE 0])
        gap_space == gap * Max(0, count - 1)
        remaining_space == Max(0, available_space - used_space - gap_space)
        total_fr == SumSeq([i \in 1..count |-> fr(i)])
        sizes == [i \in 1..count |->
                    IF is_px(i) THEN tracks[i].num
                    ELSE IF total_fr > 0 /\ remaining_space > 0
                    THEN (fr(i) * remaining_space) \div total_fr
                    ELSE 0]
    IN  IF tracks_str = <<>>
        THEN [err |-> FALSE,
              sizes |-> [i \in 1..count |->
                            Max(0, (available_space - gap * Max(0, count - 1)) \div count)]]
        ELSE IF \E i \in 1..count : (is_px(i) \/ is_fr(i)) /\ ~FloatOk(tracks[i], 2)
        THEN [err |-> TRUE, sizes |-> <<>>]
        ELSE [err |-> FALSE, sizes |-> [i \in 1..count |-> Max(0, sizes[i])]]

\* ------------------------------------------------------------ method calls
Self(method, a) ==
    CASE method = "Base_parse_length" ->
            Base_parse_length(a[1], a[2])
      [] method = "Base_parse_box_value" ->
            Base_parse_box_value(a[1], a[2])
      [] method = "Base_height_defaults" ->
            Base_height_defaults(a[1])
      [] method = "Base_calculate_auto_height" ->
            Base_calculate_auto_height(a[1], a[2], a[3], a[4])
      [] method = "Base_box_edges" ->
            Base_box_edges(a[1], a[2], a[3])
      [] method = "Base_calculate_box_model" ->
            Base_calculate_box_model(a[1], a[2], a[3], a[4], a[5])
      [] method = "Base_flex_props" ->
            Base_flex_props(a[1])
      [] method = "Base_row_base_width" ->
            Base_row_base_width(a[1], a[2], a[3])
      [] method = "Base_column_base_height" ->
            Base_column_base_height(a[1], a[2], a[3], a[4], a[5])
      [] method = "Base_flex_distribute" ->
            Base_flex_distribute(a[1], a[2], a[3])
      [] method = "Base_flex_row_sizes" ->
            Base_flex_row_sizes(a[1], a[2], a[3])
      [] method = "Base_flex_column_sizes" ->
            Base_flex_column_sizes(a[1], a[2], a[3], a[4])
      [] method = "Base_root_box" ->
            Base_root_box(a[1], a[2], a[3])
      [] method = "Base_child_box" ->
            Base_child_box(a[1], a[2], a[3], a[4], a[5], a[6], a[7])
      [] method = "Base_layout" ->
            Base_layout(a[1], a[2], a[3], a[4], a[5], a[6], a[7], a[8], a[9])
      [] method = "Base_flex_row_place" ->
            Base_flex_row_place(a[1], a[2], a[3], a[4], a[5], a[6], a[7], a[8], a[9])
      [] method = "Base_flex_column_place" ->
            Base_flex_column_place(a[1], a[2], a[3], a[4], a[5], a[6], a[7], a[8], a[9])
      [] method = "Base_layout_flex_row" ->
            Base_layout_flex_row(a[1], a[2], a[3], a[4], a[5], a[6])
      [] method = "Base_layout_flex_column" ->
            Base_layout_flex_column(a[1], a[2], a[3], a[4], a[5], a[6])
      [] method = "Base_calculate_child_height" ->
            Base_calculate_child_height(a[1], a[2], a[3], a[4])
      [] method = "Base_block_loop" ->
            Base_block_loop(a[1], a[2], a[3], a[4], a[5], a[6], a[7], a[8])
      [] method = "Base_layout_block_children" ->
            Base_layout_block_children(a[1], a[2], a[3], a[4], a[5], a[6])
      [] method = "Base_inline_loop" ->
            Base_inline_loop(a[1], a[2], a[3], a[4], a[5], a[6], a[7], a[8], a[9], a[10])
      [] method = "Base_layout_inline_children" ->
            Base_layout_inline_children(a[1], a[2], a[3], a[4], a[5], a[6])
      [] method = "Base_layout_children" ->
            Base_layout_children(a[1], a[2], a[3], a[4], a[5], a[6])
      [] method = "Enh_parse_enhanced_length" ->
            Enh_parse_enhanced_length(a[1], a[2], a[3])
      [] method = "Enh_parse_length_or_none" ->
            Enh_parse_length_or_none(a[1], a[2], a[3])
      [] method = "Enh_calculate_enhanced_auto_height" ->
            Enh_calculate_enhanced_auto_height(a[1], a[2])
      [] method = "Enh_calculate_box_model" ->
            Enh_calculate_box_model(a[1], a[2], a[3], a[4], a[5])
      [] method = "Enh_apply_enhanced_style_to_layout_box" ->
            Enh_apply_enhanced_style_to_layout_box(a[1], a[2], a[3])
      [] method = "Enh_calculate_enhanced_dimensions" ->
            Enh_calculate_enhanced_dimensions(a[1], a[2], a[3], a[4], a[5])
      [] method = "Enh_position_absolute_element" ->
            Enh_position_absolute_element(a[1], a[2], a[3])
      [] method = "Enh_apply_relative_positioning" ->
            Enh_apply_relative_positioning(a[1])
      [] method = "Enh_handle_enhanced_positioning" ->
            Enh_handle_enhanced_positioning(a[1], a[2], a[3], a[4], a[5], a[6])
      [] method = "Enh_flex_children" ->
            Enh_flex_children(a[1], a[2], a[3])
      [] method = "Enh_calculate_flex_sizes" ->
            Enh_calculate_flex_sizes(a[1], a[2], a[3], a[4], a[5])
      [] method = "Enh_position_single_loop" ->
            Enh_position_single_loop(a[1], a[2], a[3], a[4], a[5], a[6], a[7], a[8], a[9], a[10])
      [] method = "Enh_position_flex_items_single_line" ->
            Enh_position_flex_items_single_line(a[1], a[2], a[3], a[4], a[5], a[6], a[7], a[8], a[9], a[10])
      [] method = "Enh_layout_flex_single_line" ->
            Enh_layout_flex_single_line(a[1], a[2], a[3], a[4], a[5], a[6], a[7], a[8])
      [] method = "Enh_flex_lines_loop" ->
            Enh_flex_lines_loop(a[1], a[2], a[3], a[4], a[5], a[6], a[7], a[8])
      [] method = "Enh_calculate_flex_lines" ->
            Enh_calculate_flex_lines(a[1], a[2], a[3], a[4], a[5])
      [] method = "Enh_position_flex_lines" ->
            Enh_position_flex_lines(a[1], a[2], a[3], a[4], a[5], a[6], a[7], a[8])
      [] method = "Enh_position_flex_items_in_line" ->
            Enh_position_flex_items_in_line(a[1], a[2], a[3], a[4], a[5], a[6], a[7])
      [] method = "Enh_size_lines" ->
            Enh_size_lines(a[1], a[2], a[3], a[4], a[5], a[6])
      [] method = "Enh_place_lines" ->
            Enh_place_lines(a[1], a[2], a[3], a[4], a[5], a[6], a[7], a[8])
      [] method = "Enh_layout_flex_multi_line" ->
            Enh_layout_flex_multi_line(a[1], a[2], a[3], a[4], a[5], a[6], a[7], a[8], a[9], a[10])
      [] method = "Enh_track_first_pass" ->
            Enh_track_first_pass(a[1], a[2])
      [] method = "Enh_calculate_grid_track_sizes" ->
            Enh_calculate_grid_track_sizes(a[1], a[2], a[3])
      [] method = "Enh_parse_grid_template_areas" ->
            Enh_parse_grid_template_areas(a[1])
      [] method = "Enh_create_grid_area_map" ->
            Enh_create_grid_area_map(a[1])
      [] method = "Enh_place_grid_item_at_position" ->
            Enh_place_grid_item_at_position(a[1], a[2], a[3], a[4], a[5], a[6])
      [] method = "Enh_valid_children" ->
            Enh_valid_children(a[1], a[2])
      [] method = "Enh_grid_named_loop" ->
            Enh_grid_named_loop(a[1], a[2], a[3], a[4], a[5], a[6], a[7])
      [] method = "Enh_next_free_cell" ->
            Enh_next_free_cell(a[1], a[2], a[3], a[4], a[5])
      [] method = "Enh_grid_auto_loop" ->
            Enh_grid_auto_loop(a[1], a[2], a[3], a[4], a[5], a[6], a[7], a[8], a[9])
      [] method = "Enh_parse_grid_template" ->
            Enh_parse_grid_template(a[1], a[2])
      [] method = "Enh_layout_grid_children" ->
            Enh_layout_grid_children(a[1], a[2], a[3], a[4])
      [] method = "Enh_normal_loop" ->
            Enh_normal_loop(a[1], a[2], a[3], a[4], a[5], a[6], a[7], a[8])
      [] method = "Enh_layout_normal_children" ->
            Enh_layout_normal_children(a[1], a[2], a[3], a[4])
      [] method = "Enh_flex_natural" ->
            Enh_flex_natural(a[1], a[2], a[3], a[4], a[5], a[6], a[7])
      [] method = "Enh_layout_flex_children" ->
            Enh_layout_flex_children(a[1], a[2], a[3], a[4])
      [] method = "Enh_layout" ->
            Enh_layout(a[1], a[2], a[3], a[4], a[5], a[6], a[7], a[8], a[9])
      [] method = "Uni_parse_grid_tracks_working" ->
            Uni_parse_grid_tracks_working(a[1], a[2], a[3], a[4])

\* ============================================================ the system
NoBoxes == [q \in {} |-> 0]
NoCall == [op |-> "none"]

Engines == {"LayoutEngine", "EnhancedLayoutEngine"}

\* text_content of n characters
Text(n) == [i \in 1..n |-> "x"]

Div(sty, kids) == Elem("div", <<>>, sty, kids)

\* A style from a sequence of <<property, value>> declarations
RECURSIVE Style(_)
Style(decls) ==
    IF decls = <<>> THEN NoStyle
    ELSE (Head(decls)[1] :> Head(decls)[2]) @@ Style(Tail(decls))

\* --------------------------------------------------- block-flow documents
BlockKinds ==
    {"plain", "negative", "percent", "shorthand", "margins", "text", "both", "half"}

BlockChild(kind, kids) ==
    CASE kind = "plain" -> Div(NoStyle, kids)
      [] kind = "negative" ->
            Div(Style(<< <<"width", Px(-10)>>, <<"height", Px(30)>> >>), kids)
      [] kind = "percent" ->
            Div(Style(<< <<"width", Pct(50)>>, <<"height", Px(40)>>,
                         <<"margin-top", Px(20)>> >>), kids)
      [] kind = "shorthand" ->
            Div(Style(<< <<"margin", <<Px(10)>> >>, <<"height", Px(20)>> >>), kids)
      [] kind = "margins" ->
            Div(Style(<< <<"margin-top", Px(30)>>, <<"margin-bottom", Px(10)>>,
                         <<"height", Px(50)>> >>), kids)
      [] kind = "text" ->
            Elem("p", Text(2), Style(<< <<"padding-top", Px(5)>> >>), kids)
      [] kind = "both" ->
            Div(Style(<< <<"margin", <<Px(10)>> >>, <<"margin-left", Px(30)>>,
                         <<"padding", <<Px(4)>> >>, <<"padding-top", Px(8)>>,
                         <<"height", Px(20)>> >>), kids)
      [] kind = "half" -> Div(Style(<< <<"height", Pct(50)>> >>), kids)

RootPaddings == {0, 20, 120}

\* <div style="padding: pad"> with the children kinds[1..n]; when nested,
\* the first child has a child of its own
BlockTree(pad, kinds, nested) ==
    Div(IF pad = 0 THEN NoStyle ELSE Style(<< <<"padding", <<Px(pad)>> >> >>),
        [i \in 1..Len(kinds) |->
            BlockChild(kinds[i],
                       IF nested /\ i = 1
                       THEN << Div(Style(<< <<"height", Px(10)>>,
                                            <<"margin-top", Px(5)>> >>), <<>>) >>
                       ELSE <<>>)])

Fresh ==
    /\ boxes = NoBoxes
    /\ positioned_elements = <<>>
    /\ raised = FALSE
    /\ passes = 0
    /\ call = NoCall
    /\ ret = NoCall
    /\ manager = None
    /\ trace = <<>>

Init ==
    /\ engine \in Engines
    /\ viewport = [w |-> 200, h |-> 300]
    /\ \E pad \in RootPaddings, nested \in BOOLEAN, n \in 1..MaxKids :
         \E kinds \in [1..n -> BlockKinds] : tree = BlockTree(pad, kinds, nested)
    /\ Fresh

\* ----------------------------------------------------------------- actions
PassState == [boxes |-> boxes, raised |-> FALSE, positioned_elements |-> positioned_elements]

Finish(st) ==
    /\ boxes' = st.boxes
    /\ positioned_elements' = st.positioned_elements
    /\ raised' = st.raised
    /\ passes' = passes + 1
    /\ UNCHANGED <<engine, viewport, tree, call, ret, manager, trace>>

\* LayoutEngine(viewport).layout(root)
LayoutEngine_layout ==
    /\ engine = "LayoutEngine"
    /\ passes < MaxPasses
    /\ Finish(Self("Base_layout", <<PassState, tree, <<>>, viewport, viewport.w, viewport.h, TRUE, 0, 0>>))

\* EnhancedLayoutEngine(viewport).layout(root)
EnhancedLayoutEngine_layout ==
    /\ engine = "EnhancedLayoutEngine"
    /\ passes < MaxPasses
    /\ Finish(Self("Enh_layout", <<PassState, tree, <<>>, viewport, viewport.w, viewport.h, TRUE, 0, 0>>))

Next == LayoutEngine_layout \/ EnhancedLayoutEngine_layout

Spec == Init /\ [][Next]_vars

\* --------------------------------------------------------- flex documents
FlexKinds ==
    {"grow1", "grow2", "fixed", "wide", "ordered", "auto", "badgrow", "parent", "basis"}

FlexChild(kind) ==
    CASE kind = "grow1" ->
            Div(Style(<< <<"flex-basis", Num(0)>>, <<"flex-grow", Num(1)>> >>), <<>>)
      [] kind = "grow2" ->
            Div(Style(<< <<"flex-basis", Pct(0)>>, <<"flex-grow", Num(2)>> >>), <<>>)
      [] kind = "fixed" ->
            Div(Style(<< <<"flex", <<Num(0), Num(0), Px(100)>> >> >>), <<>>)
      [] kind = "wide" -> Div(Style(<< <<"width", Px(200)>> >>), <<>>)
      [] kind = "ordered" ->
            Div(Style(<< <<"order", Num(1)>>, <<"width", Px(60)>> >>), <<>>)
      [] kind = "auto" -> Div(Style(<< <<"flex", <<Auto>> >> >>), <<>>)
      [] kind = "badgrow" ->
            Div(Style(<< <<"flex-grow", Kw(<<"a", "b", "c">>)>> >>), <<>>)
      [] kind = "basis" ->
            Div(Style(<< <<"flex-basis", Px(100)>>, <<"flex-grow", Num(1)>> >>), <<>>)
      [] kind = "parent" ->
            Div(Style(<< <<"padding-left", Px(10)>>, <<"width", Px(120)>> >>),
                << Div(Style(<< <<"height", Px(10)>>, <<"margin-left", Px(5)>> >>), <<>>) >>)

RootFlexKinds == {"row", "column", "center", "bogus", "wrap"}

FlexRootStyle(kind) ==
    Style(<< <<"display", "flex">> >>) @@
    CASE kind = "row" -> NoStyle
      [] kind = "column" -> Style(<< <<"flex-direction", "column">> >>)
      [] kind = "center" ->
            Style(<< <<"justify-content", "center">>, <<"align-items", "center">>,
                     <<"gap", Px(10)>> >>)
      [] kind = "bogus" -> Style(<< <<"flex-direction", "sideways">> >>)
      [] kind = "wrap" -> Style(<< <<"flex-wrap", "wrap">> >>)

FlexTree(root_kind, kinds) ==
    Div(FlexRootStyle(root_kind), [i \in 1..Len(kinds) |-> FlexChild(kinds[i])])

InitFlex ==
    /\ engine \in Engines
    /\ viewport = [w |-> 300, h |-> 200]
    /\ \E root_kind \in RootFlexKinds, n \in 1..MaxKids :
         \E kinds \in [1..n -> FlexKinds] : tree = FlexTree(root_kind, kinds)
    /\ Fresh

SpecFlex == InitFlex /\ [][Next]_vars

\* --------------------------------------------------------- grid documents
GridChildKinds == {"header", "main", "sidebar", "auto", "text", "nowhere"}

GridChild(kind) ==
    CASE kind = "auto" -> Div(NoStyle, <<>>)
      [] kind = "text" -> Elem("text", Text(2), NoStyle, <<>>)
      [] OTHER -> Div(Style(<< <<"grid-area", kind>> >>), <<>>)

GridKinds == {"areas", "nogap", "columns", "bare", "derived", "squeezed"}

HolyGrail == << <<"header", "header">>, <<"main", "sidebar">> >>

GridRootStyle(kind) ==
    Style(<< <<"display", "grid">> >>) @@
    CASE kind = "areas" ->
            Style(<< <<"grid-template-areas", HolyGrail>>,
                     <<"grid-template-columns", <<Fr(1), Px(100)>> >>,
                     <<"grid-template-rows", <<Px(50), Fr(1)>> >>,
                     <<"gap", Px(10)>> >>)
      [] kind = "nogap" ->
            Style(<< <<"grid-template-areas", HolyGrail>>,
                     <<"grid-template-columns", <<Fr(1), Px(100)>> >>,
                     <<"grid-template-rows", <<Px(50), Fr(1)>> >> >>)
      [] kind = "columns" ->
            Style(<< <<"grid-template-columns", <<Fr(1), Fr(1)>> >>, <<"gap", Px(10)>> >>)
      [] kind = "bare" -> NoStyle
      [] kind = "derived" ->
            Style(<< <<"grid-template-areas", HolyGrail>>, <<"gap", Px(10)>> >>)
      [] kind = "squeezed" ->
            Style(<< <<"grid-template-columns", <<Fr(1), Fr(1)>> >>,
                     <<"padding", <<Px(200)>> >> >>)

GridTree(root_kind, kinds) ==
    Div(GridRootStyle(root_kind), [i \in 1..Len(kinds) |-> GridChild(kinds[i])])

InitGrid ==
    /\ engine = "EnhancedLayoutEngine"
    /\ viewport = [w |-> 400, h |-> 300]
    /\ \E root_kind \in GridKinds, n \in 1..MaxKids :
         \E kinds \in [1..n -> GridChildKinds] : tree = GridTree(root_kind, kinds)
    /\ Fresh

NextGrid == EnhancedLayoutEngine_layout

SpecGrid == InitGrid /\ [][NextGrid]_vars

\* ------------------------------------------------------ grid track sizing
MaxTracks == 2

Tracks == {Fr(1), Fr(2), Px(300), Pct(25), Num(60), Auto}
TrackLists == UNION {[1..n -> Tracks] : n \in 1..MaxTracks}
ContainerSizes == {600, 1200}
Gaps == {0, 30}

InitTracks ==
    /\ engine \in {"EnhancedLayoutEngine", "UnifiedLayoutEngine"}
    /\ viewport = [w |-> 1200, h |-> 600]
    /\ tree = Div(NoStyle, <<>>)
    /\ Fresh

\* EnhancedLayoutEngine._calculate_grid_track_sizes(tracks, container_size, gap, len(tracks))
Enhanced_calculate_grid_track_sizes ==
    /\ engine = "EnhancedLayoutEngine"
    /\ \E tracks \in TrackLists, container_size \in ContainerSizes, gap \in Gaps :
         /\ call' = [op |-> "_calculate_grid_track_sizes", tracks |-> tracks,
                     container_size |-> container_size, gap |-> gap]
         /\ ret' = [err |-> FALSE,
                    sizes |-> Self("Enh_calculate_grid_track_sizes", <<tracks, container_size, gap>>)]
    /\ UNCHANGED <<engine, viewport, tree, boxes, positioned_elements, raised, passes,
                   manager, trace>>

\* UnifiedLayoutEngine._parse_grid_tracks_working(tracks_str, available_space, len(tracks), gap)
Unified_parse_grid_tracks_working ==
    /\ engine = "UnifiedLayoutEngine"
    /\ \E tracks \in TrackLists, container_size \in ContainerSizes, gap \in Gaps :
         /\ call' = [op |-> "_parse_grid_tracks_working", tracks |-> tracks,
                     container_size |-> container_size, gap |-> gap]
         /\ ret' = Self("Uni_parse_grid_tracks_working", <<tracks, container_size, Len(tracks), gap>>)
    /\ UNCHANGED <<engine, viewport, tree, boxes, positioned_elements, raised, passes,
                   manager, trace>>

NextTracks == Enhanced_calculate_grid_track_sizes \/ Unified_parse_grid_tracks_working

SpecTracks == InitTracks /\ [][NextTracks]_vars

\* ------------------------------------------------- lengths and shorthands
Lengths == {Px(12), Pct(50), Em(2), Rem(2), Em(3), Rem(3), Num(7), Auto}
BoxParts == {Px(5), Px(10), Px(20)}
BoxValues == UNION {[1..n -> BoxParts] : n \in 1..4}

InitCalls ==
    /\ engine \in Engines
    /\ viewport = [w |-> 1200, h |-> 600]
    /\ tree = Div(NoStyle, <<>>)
    /\ Fresh

\* LayoutEngine._parse_box_value(value, container_size), inherited by EnhancedLayoutEngine
LayoutEngine_parse_box_value ==
    /\ \E value \in BoxValues, container_size \in ContainerSizes :
         /\ call' = [op |-> "_parse_box_value", value |-> value, container_size |-> container_size]
         /\ ret' = [err |-> FALSE,
                    sides |-> Self("Base_parse_box_value", <<value, container_size>>)]
    /\ UNCHANGED <<engine, viewport, tree, boxes, positioned_elements, raised, passes,
                   manager, trace>>

\* LayoutEngine._parse_length(value, container_size), inherited by EnhancedLayoutEngine
LayoutEngine_parse_length ==
    /\ \E value \in Lengths, container_size \in ContainerSizes :
         /\ call' = [op |-> "_parse_length", value |-> value, container_size |-> container_size]
         /\ ret' = [err |-> FALSE, v |-> Self("Base_parse_length", <<value, container_size>>)]
    /\ UNCHANGED <<engine, viewport, tree, boxes, positioned_elements, raised, passes,
                   manager, trace>>

\* EnhancedLayoutEngine.parse_enhanced_length(value, container_size)
Enhanced_parse_enhanced_length ==
    /\ engine = "EnhancedLayoutEngine"
    /\ \E value \in Lengths, container_size \in ContainerSizes :
         /\ call' = [op |-> "parse_enhanced_length", value |-> value,
                     container_size |-> container_size]
         /\ ret' = [err |-> FALSE,
                    v |-> Self("Enh_parse_enhanced_length", <<value, container_size, viewport>>)]
    /\ UNCHANGED <<engine, viewport, tree, boxes, positioned_elements, raised, passes,
                   manager, trace>>

NextCalls ==
    \/ LayoutEngine_parse_box_value
    \/ LayoutEngine_parse_length
    \/ Enhanced_parse_enhanced_length

SpecCalls == InitCalls /\ [][NextCalls]_vars

\* ---------------------------------------------------- justified flex lines
JustifyKeywords ==
    {"flex-start", "flex-end", "center", "space-between", "space-around", "space-evenly"}
JustifyGaps == {Px(0), Px(12)}
JustifyItems == {"small", "tall", "large"}

JustifyChild(kind) ==
    CASE kind = "small" -> Div(Style(<< <<"width", Px(60)>>, <<"height", Px(24)>> >>), <<>>)
      [] kind = "tall" -> Div(Style(<< <<"width", Px(24)>>, <<"height", Px(60)>> >>), <<>>)
      [] kind = "large" -> Div(Style(<< <<"width", Px(96)>>, <<"height", Px(36)>> >>), <<>>)

JustifyRootStyle(keyword, gap, direction, wrap) ==
    Style(<< <<"display", "flex">>, <<"width", Px(360)>>, <<"height", Px(240)>>,
             <<"align-items", "flex-start">>, <<"justify-content", keyword>>,
             <<"gap", gap>>, <<"flex-direction", direction>>, <<"flex-wrap", wrap>> >>)

JustifyTree(keyword, gap, direction, wrap, kinds) ==
    Div(JustifyRootStyle(keyword, gap, direction, wrap),
        [i \in 1..Len(kinds) |-> JustifyChild(kinds[i])])

InitJustify ==
    /\ engine = "EnhancedLayoutEngine"
    /\ viewport = [w |-> 360, h |-> 240]
    /\ \E keyword \in JustifyKeywords, gap \in JustifyGaps, direction \in {"row", "column"},
          wrap \in {"nowrap", "wrap"}, n \in 1..MaxKids :
         \E kinds \in [1..n -> JustifyItems] :
            tree = JustifyTree(keyword, gap, direction, wrap, kinds)
    /\ Fresh

NextJustify == EnhancedLayoutEngine_layout

SpecJustify == InitJustify /\ [][NextJustify]_vars

\* ------------------------------------------------------- inline documents
InlineKinds == {"narrow", "wide", "spaced", "margined", "auto", "block"}

InlineChild(kind) ==
    CASE kind = "narrow" ->
            Div(Style(<< <<"display", "inline-block">>, <<"width", Px(80)>>,
                         <<"height", Px(30)>> >>), <<>>)
      [] kind = "wide" ->
            Div(Style(<< <<"display", "inline-block">>, <<"width", Px(120)>>,
                         <<"height", Px(50)>> >>), <<>>)
      [] kind = "spaced" ->
            Div(Style(<< <<"display", "inline-block">>, <<"width", Px(80)>>,
                         <<"height", Px(30)>>, <<"margin-left", Px(10)>>,
                         <<"margin-right", Px(10)>>, <<"margin-bottom", Px(6)>> >>), <<>>)
      [] kind = "margined" ->
            Div(Style(<< <<"display", "inline-block">>, <<"width", Px(100)>>,
                         <<"height", Px(30)>>, <<"margin", <<Px(10)>> >> >>), <<>>)
      [] kind = "auto" ->
            Div(Style(<< <<"display", "inline-block">>, <<"height", Px(20)>> >>), <<>>)
      [] kind = "block" -> Div(Style(<< <<"height", Px(20)>> >>), <<>>)

InlinePaddings == {0, 20}

\* <div style="padding: pad"> with the children kinds[1..n]
InlineTree(pad, kinds) ==
    Div(IF pad = 0 THEN NoStyle ELSE Style(<< <<"padding", <<Px(pad)>> >> >>),
        [i \in 1..Len(kinds) |-> InlineChild(kinds[i])])

InitInline ==
    /\ engine = "LayoutEngine"
    /\ viewport = [w |-> 200, h |-> 300]
    /\ \E pad \in InlinePaddings, n \in 1..MaxKids :
         \E kinds \in [1..n -> InlineKinds] : tree = InlineTree(pad, kinds)
    /\ Fresh

NextInline == LayoutEngine_layout

SpecInline == InitInline /\ [][NextInline]_vars

\* ------------------------------------------------------------- interaction
\* The document of the interaction manager is
\*     <div> <div> <span>x</span> </div> </div>
\* laid out on one row: the outer div covers x in [0, 3), the inner div
\* [1, 3), the span and its text node [2, 3).  No element of it is
\* focusable, draggable or a button, so focused_element and dragging_element
\* stay None and the state styles leave every computed_style alone.
\* A handler is named by what it calls on the event it is given.
MaxListeners == 2

\* InteractiveEvent(type=..., target=..., bubbles=...)
InteractiveEvent(type, target, bubbles) ==
    [type |-> type, target |-> target, current_target |-> None, phase |-> "BUBBLING",
     bubbles |-> bubbles, stopped |-> FALSE, stopped_immediate |-> FALSE]

\* InteractionManager(root)
InitEvents ==
    /\ engine = "LayoutEngine"
    /\ viewport = [w |-> 3, h |-> 1]
    /\ tree = Div(NoStyle, << Div(NoStyle,
                    << Elem("span", <<>>, NoStyle,
                            << Elem("text", Text(1), NoStyle, <<>>) >>) >>) >>)
    /\ boxes = (<<>> :> [LayoutBox EXCEPT !.width = 3, !.height = 1]
                @@ <<1>> :> [LayoutBox EXCEPT !.x = 1, !.width = 2, !.height = 1]
                @@ <<1, 1>> :> [LayoutBox EXCEPT !.x = 2, !.width = 1, !.height = 1]
                @@ <<1, 1, 1>> :> [LayoutBox EXCEPT !.x = 2, !.width = 1, !.height = 1])
    /\ positioned_elements = <<>>
    /\ raised = FALSE
    /\ passes = 1
    /\ call = NoCall
    /\ ret = NoCall
    /\ manager = [focused_element |-> None, hovered_element |-> None,
                  active_element |-> None, dragging_element |-> None,
                  element_states |->
                      [e \in Paths(tree, <<>>) |-> [hovered |-> FALSE, active |-> FALSE]],
                  event_listeners |->
                      [e \in Paths(tree, <<>>) |-> [t \in {"click", "mouseup"} |-> <<>>]]]
    /\ trace = [dispatched |-> <<>>, calls |-> <<>>, mouse_down |-> None]

\* InteractionManager.add_event_listener(element, event_type, handler, use_capture)
InteractionManager_add_event_listener ==
    /\ manager # None
    /\ \E element \in Paths(tree, <<>>) \ {<<1, 1, 1>>}, event_type \in {"click", "mouseup"},
          handler \in {"returns", "stop_propagation", "stop_immediate_propagation"},
          use_capture \in BOOLEAN :
          /\ SumSeq([i \in 1..3 |->
                 Len(manager.event_listeners[SubSeq(<<1, 1>>, 1, i - 1)]["click"])
                 + Len(manager.event_listeners[SubSeq(<<1, 1>>, 1, i - 1)]["mouseup"])])
                < MaxListeners
          /\ manager' = [manager EXCEPT !.event_listeners[element][event_type] =
                            Append(@, [handler |-> handler, capture |-> use_capture])]
    /\ trace' = [trace EXCEPT !.dispatched = <<>>, !.calls = <<>>]
    /\ UNCHANGED <<engine, viewport, tree, boxes, positioned_elements, raised, passes,
                   call, ret>>

\* InteractionManager.dispatch_event(event) with _call_event_handlers: tr
\* with the event and the listeners called for it added
InteractionManager_dispatch(tr, event) ==
    LET target == event.target
        listeners(element, type) ==
            IF type \in DOMAIN manager.event_listeners[element]
            THEN manager.event_listeners[element][type] ELSE <<>>
        \* _call_event_handlers, from the i-th listener of the element on
        RECURSIVE call_event_handlers(_, _, _, _)
        call_event_handlers(s, element, capture_phase, i) ==
            IF i > Len(listeners(element, s.event.type)) \/ s.event.stopped_immediate
            THEN s
            ELSE LET handler_info == listeners(element, s.event.type)[i]
                     after ==
                         CASE handler_info.handler = "stop_propagation" ->
                                 [s.event EXCEPT !.stopped = TRUE]
                           [] handler_info.handler = "stop_immediate_propagation" ->
                                 [s.event EXCEPT !.stopped_immediate = TRUE, !.stopped = TRUE]
                           [] OTHER -> s.event
                 IN  IF handler_info.capture = capture_phase
                     THEN call_event_handlers(
                              [event |-> after,
                               calls |-> Append(s.calls, [element |-> element, listener |-> i,
                                                          phase |-> s.event.phase])],
                              element, capture_phase, i + 1)
                     ELSE call_event_handlers(s, element, capture_phase, i + 1)
        \* path[:-1] from the k-th element on, root first
        RECURSIVE capturing(_, _)
        capturing(s, k) ==
            IF k >= Len(target) \/ s.event.stopped THEN s
            ELSE capturing(call_event_handlers(
                               [s EXCEPT !.event.current_target = Some(SubSeq(target, 1, k))],
                               SubSeq(target, 1, k), TRUE, 1), k + 1)
        \* reversed(path[:-1]) from the k-th element down, the parent first
        RECURSIVE bubbling(_, _)
        bubbling(s, k) ==
            IF k < 0 \/ s.event.stopped THEN s
            ELSE bubbling(call_event_handlers(
                              [s EXCEPT !.event.current_target = Some(SubSeq(target, 1, k))],
                              SubSeq(target, 1, k), FALSE, 1), k - 1)
        s0 == [event |-> [event EXCEPT !.phase = "CAPTURING"], calls |-> <<>>]
        s1 == capturing(s0, 0)
        s2 == IF ~s1.event.stopped
              THEN call_event_handlers(
                       [s1 EXCEPT !.event.phase = "AT_TARGET",
                                  !.event.current_target = Some(target)],
                       target, FALSE, 1)
              ELSE s1
        s3 == IF s2.event.bubbles /\ ~s2.event.stopped
              THEN bubbling([s2 EXCEPT !.event.phase = "BUBBLING"], Len(target) - 1)
              ELSE s2
    IN  [tr EXCEPT !.dispatched = Append(@, [type |-> event.type, target |-> target,
                                             bubbles |-> event.bubbles]),
                   !.calls = @ \o s3.calls]

\* InteractionManager.dispatch_event(event)
InteractionManager_dispatch_event ==
    /\ manager # None
    /\ \E type \in {"click", "mouseup"}, target \in Paths(tree, <<>>) \ {<<1, 1, 1>>},
          bubbles \in BOOLEAN :
          trace' = InteractionManager_dispatch(
                       [trace EXCEPT !.dispatched = <<>>, !.calls = <<>>],
                       InteractiveEvent(type, target, bubbles))
    /\ UNCHANGED <<engine, viewport, tree, boxes, positioned_elements, raised, passes,
                   call, ret, manager>>

NextDispatch == InteractionManager_add_event_listener \/ InteractionManager_dispatch_event

SpecDispatch == InitEvents /\ [][NextDispatch]_vars

\* InteractionManager._find_element_recursive(element, pos)
RECURSIVE InteractionManager_find_element_recursive(_, _)
InteractionManager_find_element_recursive(element, pos) ==
    IF element \notin DOMAIN boxes THEN None
    ELSE LET box == boxes[element]
             children == NodeAt(tree, element).children
             \* the children from the i-th down, the last one first
             RECURSIVE topmost(_)
             topmost(i) ==
                 IF i < 1 THEN None
                 ELSE LET hit_child ==
                              InteractionManager_find_element_recursive(Append(element, i), pos)
                      IN  IF hit_child.some THEN hit_child ELSE topmost(i - 1)
         IN  IF /\ pos[1] >= box.x /\ pos[1] < box.x + box.width
                /\ pos[2] >= box.y /\ pos[2] < box.y + box.height
             THEN IF topmost(Len(children)).some THEN topmost(Len(children))
                  ELSE IF NodeAt(tree, element).tag # "text" THEN Some(element)
                  ELSE None
             ELSE None

\* InteractionManager.handle_mouse_motion(pos)
InteractionManager_handle_mouse_motion ==
    /\ manager # None
    /\ \E x \in 0..3 :
          LET hit_element == InteractionManager_find_element_recursive(<<>>, <<x, 0>>)
              changed == hit_element # manager.hovered_element
              t0 == [trace EXCEPT !.dispatched = <<>>, !.calls = <<>>]
              t1 == IF changed /\ manager.hovered_element.some
                    THEN InteractionManager_dispatch(
                             t0, InteractiveEvent("mouseleave", manager.hovered_element.v, FALSE))
                    ELSE t0
              t2 == IF changed /\ hit_element.some
                    THEN InteractionManager_dispatch(
                             t1, InteractiveEvent("mouseenter", hit_element.v, FALSE))
                    ELSE t1
              t3 == IF hit_element.some
                    THEN InteractionManager_dispatch(
                             t2, InteractiveEvent("mousemove", hit_element.v, TRUE))
                    ELSE t2
          IN  /\ manager' =
                    [manager EXCEPT
                        !.hovered_element = hit_element,
                        !.element_states =
                            [e \in DOMAIN @ |->
                                IF ~changed THEN @[e]
                                ELSE IF hit_element = Some(e) THEN [@[e] EXCEPT !.hovered = TRUE]
                                ELSE IF manager.hovered_element = Some(e)
                                THEN [@[e] EXCEPT !.hovered = FALSE]
                                ELSE @[e]]]
              /\ trace' = t3
    /\ UNCHANGED <<engine, viewport, tree, boxes, positioned_elements, raised, passes,
                   call, ret>>

\* InteractionManager.handle_mouse_down(pos, button)
InteractionManager_handle_mouse_down ==
    /\ manager # None
    /\ \E x \in 0..3 :
          LET hit_element == InteractionManager_find_element_recursive(<<>>, <<x, 0>>)
              t0 == [trace EXCEPT !.dispatched = <<>>, !.calls = <<>>,
                                  !.mouse_down = Some(hit_element)]
          IN  IF hit_element.some
              THEN /\ manager' = [manager EXCEPT
                                     !.active_element = hit_element,
                                     !.element_states[hit_element.v].active = TRUE]
                   /\ trace' = InteractionManager_dispatch(
                                   t0, InteractiveEvent("mousedown", hit_element.v, TRUE))
              ELSE /\ manager' = manager
                   /\ trace' = t0
    /\ UNCHANGED <<engine, viewport, tree, boxes, positioned_elements, raised, passes,
                   call, ret>>

\* InteractionManager.handle_mouse_up(pos, button)
InteractionManager_handle_mouse_up ==
    /\ manager # None
    /\ \E x \in 0..3 :
          LET hit_element == InteractionManager_find_element_recursive(<<>>, <<x, 0>>)
              t0 == [trace EXCEPT !.dispatched = <<>>, !.calls = <<>>]
              t1 == IF hit_element.some
                    THEN InteractionManager_dispatch(
                             t0, InteractiveEvent("mouseup", hit_element.v, TRUE))
                    ELSE t0
              t2 == IF hit_element.some /\ hit_element = manager.hovered_element
                    THEN InteractionManager_dispatch(
                             t1, InteractiveEvent("click", hit_element.v, TRUE))
                    ELSE t1
          IN  /\ manager' =
                    IF manager.active_element.some
                    THEN [manager EXCEPT
                             !.active_element = None,
                             !.element_states[manager.active_element.v].active = FALSE]
                    ELSE manager
              /\ trace' = t2
    /\ UNCHANGED <<engine, viewport, tree, boxes, positioned_elements, raised, passes,
                   call, ret>>

NextMouse ==
    \/ InteractionManager_handle_mouse_motion
    \/ InteractionManager_handle_mouse_down
    \/ InteractionManager_handle_mouse_up

SpecMouse == InitEvents /\ [][NextMouse]_vars

\* --------------------------------------------------- positioned documents
PosKinds ==
    {"static", "abs_rt", "abs_lb", "fixed", "relative", "sticky", "capped", "floored"}

PosChild(kind) ==
    CASE kind = "static" -> Div(Style(<< <<"height", Px(40)>> >>), <<>>)
      [] kind = "abs_rt" ->
            Div(Style(<< <<"position", "absolute">>, <<"right", Px(10)>>, <<"top", Px(5)>>,
                         <<"width", Px(100)>>, <<"height", Px(50)>> >>), <<>>)
      [] kind = "abs_lb" ->
            Div(Style(<< <<"position", "absolute">>, <<"left", Px(10)>>, <<"bottom", Px(5)>>,
                         <<"width", Px(100)>>, <<"height", Px(50)>> >>), <<>>)
      [] kind = "fixed" ->
            Div(Style(<< <<"position", "fixed">>, <<"height", Px(50)>> >>), <<>>)
      [] kind = "relative" ->
            Div(Style(<< <<"position", "relative">>, <<"left", Px(10)>>, <<"top", Px(5)>>,
                         <<"height", Px(40)>> >>), <<>>)
      [] kind = "sticky" ->
            Div(Style(<< <<"position", "sticky">>, <<"left", Px(10)>>, <<"top", Px(5)>>,
                         <<"height", Px(40)>> >>), <<>>)
      [] kind = "capped" ->
            Div(Style(<< <<"max-width", Px(50)>>, <<"max-height", Px(30)>>,
                         <<"flex-grow", Num(1)>> >>), <<>>)
      [] kind = "floored" ->
            Div(Style(<< <<"min-width", Px(600)>>, <<"min-height", Px(90)>>,
                         <<"height", Px(40)>> >>), <<>>)

PosRootKinds == {"block", "padded", "flex"}

PosRootStyle(kind) ==
    CASE kind = "block" -> NoStyle
      [] kind = "padded" -> Style(<< <<"padding", <<Px(20)>> >> >>)
      [] kind = "flex" -> Style(<< <<"display", "flex">> >>)

PosTree(root_kind, kinds) ==
    Div(PosRootStyle(root_kind), [i \in 1..Len(kinds) |-> PosChild(kinds[i])])

InitPos ==
    /\ engine = "EnhancedLayoutEngine"
    /\ viewport = [w |-> 500, h |-> 300]
    /\ \E root_kind \in PosRootKinds, n \in 1..MaxKids :
         \E kinds \in [1..n -> PosKinds] : tree = PosTree(root_kind, kinds)
    /\ Fresh

NextPos == EnhancedLayoutEngine_layout

SpecPos == InitPos /\ [][NextPos]_vars

\* ================================================================ properties
\* A box as the renderer reads it
Laid(p) == p \in DOMAIN boxes
Elements == Paths(tree, <<>>)
Done == passes >= 1 /\ ~raised

\* C1: after layout() every laid-out element has width >= 0 and height >= 0,
\* whatever the tree and the computed styles (explicit negative lengths,
\* percentages of a parent whose padding exceeds its size).
C1_NonNegative ==
    \A p \in DOMAIN boxes : boxes[p].width >= 0 /\ boxes[p].height >= 0

\* The fields of a layout_box the claims compare
Geometry(b) ==
    <<b.x, b.y, b.width, b.height,
      b.margin_top, b.margin_right, b.margin_bottom, b.margin_left,
      b.padding_top, b.padding_right, b.padding_bottom, b.padding_left>>

\* C2: a second layout(root, W, H) on the same engine instance, the styles
\* unchanged, leaves on every element the layout_box values (x, y, width,
\* height, margins, paddings) the first call computed.
C2_Idempotent ==
    [][(passes >= 1 /\ ~raised /\ ~raised') =>
        \A p \in DOMAIN boxes' :
            p \in DOMAIN boxes /\ Geometry(boxes'[p]) = Geometry(boxes[p])]_vars

\* C3: after layout(root) returns, every element of the tree under root has
\* a layout_box: no child of any container is skipped or dropped, whatever
\* the display mode of the container, the child's tag or its grid-area.
C3_EveryElementLaidOut ==
    Done => \A p \in Elements : Laid(p)

\* C4: layout() never raises: a malformed style value (a non-numeric
\* flex-grow or order, a flex shorthand starting with a keyword, an unknown
\* flex-direction keyword) is replaced by a default and layout completes.
C4_NeverRaises ==
    ~raised

\* Block flow: consecutive children A, B (in source order) of a container
Kids(p) == 1..Len(NodeAt(tree, p).children)
BlockContainer(p) ==
    /\ Laid(p)
    /\ Get(NodeAt(tree, p).computed_style, "display", "block") = "block"
Consecutive(p, i) ==
    /\ BlockContainer(p)
    /\ i \in Kids(p) /\ i + 1 \in Kids(p)
    /\ Laid(Append(p, i)) /\ Laid(Append(p, i + 1))
NonNegativeEdges(b) ==
    b.margin_top >= 0 /\ b.margin_bottom >= 0 /\ b.height >= 0

C6_ChildInsideParent ==
    Done =>
        \A p \in Elements : \A i \in Kids(p) :
            LET P == boxes[p]
                C == boxes[Append(p, i)]
            IN  (BlockContainer(p) /\ Laid(Append(p, i))) =>
                    /\ C.x = P.x + P.padding_left + C.margin_left
                    /\ C.y >= P.y + P.padding_top

\* A row flex container without gap or wrapping
RowFlexContainer(p) ==
    LET style == NodeAt(tree, p).computed_style
    IN  /\ Laid(p)
        /\ Get(style, "display", "block") = "flex"
        /\ Get(style, "flex-direction", "row") = "row"
        /\ Get(style, "flex-wrap", "nowrap") = "nowrap"
        /\ ~Has(style, "gap") /\ ~Has(style, "column-gap")
        /\ Kids(p) # {}
        /\ \A i \in Kids(p) : Laid(Append(p, i))

\* flex-basis: 0 or 0%, flex-grow > 0, auto width, no margins
BasisZeroItem(e) ==
    LET style == e.computed_style
    IN  /\ Has(style, "flex-basis") /\ style["flex-basis"] \in {Num(0), Pct(0)}
        /\ Has(style, "flex-grow") /\ FloatOk(style["flex-grow"], 0)
        /\ style["flex-grow"].num > 0
        /\ DOMAIN style = {"flex-basis", "flex-grow"}
GrowOf(e) == e.computed_style["flex-grow"].num

\* C7: in a row flex container of content width M without gap, children
\* that all have flex-basis 0 (or 0%), flex-grow g > 0, auto width and no
\* margins end with width M * g / sum of the g, in either engine.
C7_FlexBasisZero ==
    Done =>
        \A p \in Elements :
            LET kids == NodeAt(tree, p).children
                P == boxes[p]
                M == P.width - P.padding_left - P.padding_right
                total == SumSeq([i \in 1..Len(kids) |-> GrowOf(kids[i])])
            IN  (RowFlexContainer(p) /\ \A i \in Kids(p) : BasisZeroItem(kids[i])) =>
                    \A i \in Kids(p) :
                        boxes[Append(p, i)].width * total = M * GrowOf(kids[i])

\* Sum of the first n elements of s
SumTo(s, n) == SumSeq(SubSeq(s, 1, n))

\* C8: in LayoutEngine's row flex layout the margin-box width of every child
\* is the final main size the flex algorithm computed for it, child i starts
\* at content-left plus the final sizes of the children before it, and the
\* children do not overlap horizontally.
C8_FlexRowConsecutive ==
    (Done /\ engine = "LayoutEngine") =>
        \A p \in Elements :
            LET P == boxes[p]
                content_x == P.x + P.padding_left
                final == Self("Base_flex_row_sizes",
                              <<tree, p, P.width - P.padding_left - P.padding_right>>).final
            IN  RowFlexContainer(p) =>
                    \A i \in Kids(p) :
                        LET C == boxes[Append(p, i)]
                        IN  /\ C.margin_left + C.width + C.margin_right = final[i]
                            /\ C.x - C.margin_left = content_x + SumTo(final, i - 1)
                            /\ (i + 1 \in Kids(p)) =>
                                  C.x + C.width + C.margin_right
                                      <= boxes[Append(p, i + 1)].x
                                         - boxes[Append(p, i + 1)].margin_left

\* Grid tracks as the claim reads them
IsFrTrack(track) == track.has /\ track.suf = <<"f", "r">>
IsPercentTrack(track) == track.has /\ track.suf = <<"%">>
DeclaredSize(track, container_size) ==
    IF IsPercentTrack(track) THEN (container_size * track.num) \div 100 ELSE track.num

\* C9: grid track sizing gives fixed (px or bare number) and percentage
\* tracks their declared size and divides container - sum(fixed) - gaps
\* among the fr tracks in proportion to their weights; with at least one fr
\* track and the fixed tracks and gaps fitting, the sizes and gaps add up to
\* the container size.
C9_TrackSizes ==
    (call # NoCall /\ \A i \in DOMAIN call.tracks : call.tracks[i] # Auto) =>
        LET tracks == call.tracks
            n == Len(tracks)
            gaps == call.gap * (n - 1)
            declared == SumSeq([i \in 1..n |->
                            IF IsFrTrack(tracks[i]) THEN 0
                            ELSE DeclaredSize(tracks[i], call.container_size)])
            total_fr == SumSeq([i \in 1..n |->
                            IF IsFrTrack(tracks[i]) THEN tracks[i].num ELSE 0])
            remaining == call.container_size - declared - gaps
        IN  /\ ~ret.err
            /\ Len(ret.sizes) = n
            /\ \A i \in 1..n :
                  IF IsFrTrack(tracks[i])
                  THEN remaining >= 0 =>
                          ret.sizes[i] * total_fr = tracks[i].num * remaining
                  ELSE ret.sizes[i] = DeclaredSize(tracks[i], call.container_size)
            /\ (total_fr > 0 /\ remaining >= 0) =>
                  SumSeq(ret.sizes) + gaps = call.container_size

\* A grid container with template areas and explicit column and row tracks
AreaGrid(p) ==
    LET style == NodeAt(tree, p).computed_style
    IN  /\ Laid(p)
        /\ Get(style, "display", "block") = "grid"
        /\ Has(style, "grid-template-areas")
        /\ Has(style, "grid-template-columns") /\ Has(style, "grid-template-rows")
GapOf(style) == IF Has(style, "gap") THEN style["gap"].num ELSE 0

\* Offset of track k (0-based) and extent of the tracks from..to-1: the
\* tracks before it, each followed by one gap; the spanned tracks and the
\* gaps between them
TrackOffset(sizes, k, gap) == SumTo(sizes, k) + k * gap
TrackExtent(sizes, from, to, gap) ==
    SumTo(sizes, to) - SumTo(sizes, from) + (to - from - 1) * gap

\* C10: a grid child whose grid-area names a template area, with auto width
\* and height and no margins, lies exactly on the pixel rectangle of the
\* area: its x (y) is the content-left (content-top) plus the preceding
\* column (row) tracks plus one gap per preceding track, its width (height)
\* the spanned tracks plus the gaps between them.
C10_GridAreaRect ==
    Done =>
        \A p \in Elements : \A i \in Kids(p) :
            LET style == NodeAt(tree, p).computed_style
                child == NodeAt(tree, p).children[i]
                P == boxes[p]
                C == boxes[Append(p, i)]
                gap == GapOf(style)
                cols == Self("Enh_calculate_grid_track_sizes",
                             <<style["grid-template-columns"],
                               P.width - P.padding_left - P.padding_right, gap>>)
                rows == Self("Enh_calculate_grid_track_sizes",
                             <<style["grid-template-rows"],
                               P.height - P.padding_top - P.padding_bottom, gap>>)
                areas == Self("Enh_create_grid_area_map", <<style["grid-template-areas"]>>)
                a == areas[child.computed_style["grid-area"]]
            IN  (/\ AreaGrid(p)
                 /\ DOMAIN child.computed_style = {"grid-area"}
                 /\ child.computed_style["grid-area"] \in DOMAIN areas) =>
                    /\ Laid(Append(p, i))
                    /\ C.x = P.x + P.padding_left + TrackOffset(cols, a[2], gap)
                    /\ C.y = P.y + P.padding_top + TrackOffset(rows, a[1], gap)
                    /\ C.width = TrackExtent(cols, a[2], a[4], gap)
                    /\ C.height = TrackExtent(rows, a[1], a[3], gap)

\* The content box of a laid-out element
ContentX(b) == b.x + b.padding_left
ContentY(b) == b.y + b.padding_top
ContentWidth(b) == b.width - b.padding_left - b.padding_right
ContentHeight(b) == b.height - b.padding_top - b.padding_bottom
PositionOf(e) == Get(e.computed_style, "position", "static")

\* C11: an element with position: absolute is placed relative to its
\* containing block, the content box of its parent: x is the left edge of
\* that box + left when left is present, else the left edge + the width of
\* the box - right - width when right is present; y likewise from top, else
\* bottom.
C11_AbsoluteInContainingBlock ==
    Done =>
        \A p \in Elements : \A i \in Kids(p) :
            LET P == boxes[p]
                C == boxes[Append(p, i)]
                style == NodeAt(tree, p).children[i].computed_style
            IN  (/\ BlockContainer(p) /\ Laid(Append(p, i))
                 /\ PositionOf(NodeAt(tree, p).children[i]) = "absolute") =>
                    /\ Has(style, "left") => C.x = ContentX(P) + style["left"].num
                    /\ (~Has(style, "left") /\ Has(style, "right")) =>
                          C.x = ContentX(P) + ContentWidth(P) - style["right"].num - C.width
                    /\ Has(style, "top") => C.y = ContentY(P) + style["top"].num
                    /\ (~Has(style, "top") /\ Has(style, "bottom")) =>
                          C.y = ContentY(P) + ContentHeight(P) - style["bottom"].num - C.height

\* C12: layout() keeps no state between calls: every call leaves the fields
\* of the engine (the viewport size and the list positioned_elements) as the
\* constructor left them.
C12_NoStateBetweenCalls ==
    [][viewport' = viewport /\ positioned_elements' = positioned_elements]_vars

\* C13: the root element's box is the viewport: x = 0, y = 0, width and
\* height exactly the viewport's, and every margin and padding it does not
\* declare is 0, in LayoutEngine and in EnhancedLayoutEngine alike.
Declares(style, prop, side) == Has(style, prop) \/ Has(style, prop \o "-" \o side)

C13_RootIsViewport ==
    (Done /\ Laid(<<>>)) =>
        LET b == boxes[<<>>]
            style == tree.computed_style
        IN  /\ b.x = 0 /\ b.y = 0
            /\ b.width = viewport.w /\ b.height = viewport.h
            /\ ~Declares(style, "margin", "top") => b.margin_top = 0
            /\ ~Declares(style, "margin", "right") => b.margin_right = 0
            /\ ~Declares(style, "margin", "bottom") => b.margin_bottom = 0
            /\ ~Declares(style, "margin", "left") => b.margin_left = 0
            /\ ~Declares(style, "padding", "top") => b.padding_top = 0
            /\ ~Declares(style, "padding", "right") => b.padding_right = 0
            /\ ~Declares(style, "padding", "bottom") => b.padding_bottom = 0
            /\ ~Declares(style, "padding", "left") => b.padding_left = 0

\* The sides (top, right, bottom, left) a margin or padding shorthand of one
\* to four pixel lengths stands for
ShorthandSides(value) ==
    CASE Len(value) = 1 -> <<value[1].num, value[1].num, value[1].num, value[1].num>>
      [] Len(value) = 2 -> <<value[1].num, value[2].num, value[1].num, value[2].num>>
      [] Len(value) = 3 -> <<value[1].num, value[2].num, value[3].num, value[2].num>>
      [] Len(value) = 4 -> <<value[1].num, value[2].num, value[3].num, value[4].num>>

SideNames == <<"top", "right", "bottom", "left">>

Edges(b, prop) ==
    IF prop = "margin" THEN <<b.margin_top, b.margin_right, b.margin_bottom, b.margin_left>>
    ELSE <<b.padding_top, b.padding_right, b.padding_bottom, b.padding_left>>

\* C14: when an element declares a margin or padding shorthand and a
\* longhand for one side, that side takes the longhand's value and the other
\* sides take the shorthand's.
C14_LonghandOverShorthand ==
    Done =>
        \A p \in Elements \ {<<>>} : \A prop \in {"margin", "padding"} : \A i \in 1..4 :
            LET style == NodeAt(tree, p).computed_style
                longhand == prop \o "-" \o SideNames[i]
            IN  (Laid(p) /\ Has(style, prop)) =>
                    Edges(boxes[p], prop)[i] =
                        IF Has(style, longhand) THEN style[longhand].num
                        ELSE ShorthandSides(style[prop])[i]

\* C15: _parse_box_value reads a shorthand of one value as all four sides,
\* of two values (v h) as (v, h, v, h), of three values (t h b) as
\* (t, h, b, h) and of four values as (top, right, bottom, left).
C15_BoxValueRule ==
    call.op = "_parse_box_value" => ret.sides = ShorthandSides(call.value)

\* C16: the units em and rem are the same: "Nrem" and "Nem" both resolve to
\* N * 16, in _parse_length and in parse_enhanced_length.
C16_EmIsRem ==
    (/\ call.op \in {"_parse_length", "parse_enhanced_length"}
     /\ call.value.suf \in {<<"e", "m">>, <<"r", "e", "m">>}) =>
        ret.v = call.value.num * 16

\* C17: after EnhancedLayoutEngine.layout() every element that declares
\* max-width (max-height) is at most that wide (high), and every element
\* that declares min-width (min-height) without a smaller max is at least
\* that wide (high); flex items after grow, shrink and stretch included.
Within(size, style, min_prop, max_prop) ==
    /\ Has(style, max_prop) => size <= style[max_prop].num
    /\ (/\ Has(style, min_prop)
        /\ Has(style, max_prop) => style[max_prop].num >= style[min_prop].num) =>
           size >= style[min_prop].num

C17_MinMaxClamp ==
    (Done /\ engine = "EnhancedLayoutEngine") =>
        \A p \in Elements :
            Laid(p) =>
                /\ Within(boxes[p].width, NodeAt(tree, p).computed_style, "min-width", "max-width")
                /\ Within(boxes[p].height, NodeAt(tree, p).computed_style, "min-height", "max-height")

\* The same document with every position: sticky replaced by position: relative
RECURSIVE Relativized(_)
Relativized(e) ==
    [e EXCEPT !.computed_style =
                  IF PositionOf(e) = "sticky" THEN [@ EXCEPT !["position"] = "relative"] ELSE @,
              !.children = [i \in DOMAIN @ |-> Relativized(@[i])]]

\* The boxes a first EnhancedLayoutEngine.layout(t) on a new engine computes
FirstLayout(t) ==
    Self("Enh_layout", <<[boxes |-> NoBoxes, raised |-> FALSE, positioned_elements |-> <<>>],
                         t, <<>>, viewport, viewport.w, viewport.h, TRUE, 0, 0>>).boxes

Size(b) == <<b.x, b.y, b.width, b.height>>

\* C18: an element with position: sticky is laid out exactly as the same
\* element with position: relative: the same x, y, width and height,
\* whatever offsets it declares.
C18_StickyAsRelative ==
    (passes = 1 /\ ~raised /\ engine = "EnhancedLayoutEngine") =>
        \A p \in Elements :
            (Laid(p) /\ PositionOf(NodeAt(tree, p)) = "sticky") =>
                /\ p \in DOMAIN FirstLayout(Relativized(tree))
                /\ Size(boxes[p]) = Size(FirstLayout(Relativized(tree))[p])

\* The document without the i-th child of the root
Without(t, i) ==
    [t EXCEPT !.children = [k \in 1..(Len(@) - 1) |-> IF k < i THEN @[k] ELSE @[k + 1]]]

\* The document with the i-th child of the root made position: static
Static(t, i) ==
    [t EXCEPT !.children[i].computed_style = [k \in DOMAIN @ \ {"position"} |-> @[k]]]

\* C19: a child with position: absolute or fixed is out of normal flow: in a
\* block-flow container its following siblings are placed as if it were not
\* among the children; a position: relative child keeps its slot, so its
\* following siblings are placed as if it were static.
C19_AbsoluteOutOfFlow ==
    (passes = 1 /\ ~raised /\ engine = "EnhancedLayoutEngine" /\ BlockContainer(<<>>)) =>
        \A i \in Kids(<<>>) : \A j \in Kids(<<>>) :
            (j > i /\ Laid(<<j>>)) =>
                /\ PositionOf(tree.children[i]) \in {"absolute", "fixed"} =>
                      Size(boxes[<<j>>]) = Size(FirstLayout(Without(tree, i))[<<j - 1>>])
                /\ PositionOf(tree.children[i]) = "relative" =>
                      Size(boxes[<<j>>]) = Size(FirstLayout(Static(tree, i))[<<j>>])

\* The height left in the content box of p when its i-th child is reached:
\* the content height minus the margin-box heights of the children before
\* it, floored at 0
RECURSIVE RemainingHeight(_, _)
RemainingHeight(p, i) ==
    IF i = 1 THEN ContentHeight(boxes[p])
    ELSE LET b == boxes[Append(p, i - 1)]
         IN  Max(0, RemainingHeight(p, i - 1) - (b.margin_top + b.height + b.margin_bottom))

HeightOf(p) == Get(NodeAt(tree, p).computed_style, "height", Auto)

\* A child with height: p% has exactly p% of the remaining height
PercentOfRemaining ==
    \A p \in Elements : \A i \in Kids(p) :
        (/\ BlockContainer(p)
         /\ \A k \in 1..i : Laid(Append(p, k))
         /\ EndsWith(HeightOf(Append(p, i)), <<"%">>)) =>
            boxes[Append(p, i)].height =
                (RemainingHeight(p, i) * HeightOf(Append(p, i)).num) \div 100

\* An auto-height child has the heuristic's value for the remaining height
AutoOfRemaining ==
    \A p \in Elements : \A i \in Kids(p) :
        (/\ BlockContainer(p)
         /\ \A k \in 1..i : Laid(Append(p, k))
         /\ HeightOf(Append(p, i)) = Auto) =>
            boxes[Append(p, i)].height =
                Self("Base_calculate_auto_height",
                     <<tree, Append(p, i), RemainingHeight(p, i), viewport>>)

\* C20: in LayoutEngine block flow a child's height is resolved once against
\* the height remaining in the parent's content box when the child is
\* reached: a child with height: p% gets exactly p% of the remaining height,
\* an auto-height child the heuristic's value for the remaining height.
C20_HeightOfRemaining ==
    (Done /\ engine = "LayoutEngine") => (PercentOfRemaining /\ AutoOfRemaining)

\* flex-grow, flex-shrink and flex-basis of a flex item as its style declares
\* them (the flex shorthand before the longhands)
FlexPart(e, k, longhand, default) ==
    LET style == e.computed_style
    IN  IF Has(style, "flex") /\ Len(style["flex"]) >= k THEN style["flex"][k]
        ELSE Get(style, longhand, default)
FlexGrowOf(e) == FlexPart(e, 1, "flex-grow", Num(0)).num
FlexShrinkOf(e) == FlexPart(e, 2, "flex-shrink", Num(1)).num

\* The base main size of a row flex item: flex-basis when given (0 and 0% are
\* 0), else the explicit width, else 0 for a growing item and 100 otherwise
FlexBaseOf(e) ==
    LET basis == FlexPart(e, 3, "flex-basis", Auto)
    IN  IF basis # Auto THEN basis.num
        ELSE IF Has(e.computed_style, "width") THEN e.computed_style["width"].num
        ELSE IF FlexGrowOf(e) > 0 THEN 0 ELSE 100

\* C21: in LayoutEngine's no-wrap row flex layout, with free = the container's
\* main size - the sum of the base sizes of all children: when free > 0 and
\* the sum of flex-grow > 0, every child ends with main size
\* base + free * grow / sum(grow), so the children fill the container.
C21_FlexGrowFills ==
    (Done /\ engine = "LayoutEngine" /\ RowFlexContainer(<<>>)) =>
        LET kids == tree.children
            free == ContentWidth(boxes[<<>>]) - SumSeq([i \in 1..Len(kids) |-> FlexBaseOf(kids[i])])
            total == SumSeq([i \in 1..Len(kids) |-> FlexGrowOf(kids[i])])
        IN  (free > 0 /\ total > 0) =>
                /\ \A i \in Kids(<<>>) :
                      boxes[<<i>>].width * total =
                          FlexBaseOf(kids[i]) * total + free * FlexGrowOf(kids[i])
                /\ SumSeq([i \in 1..Len(kids) |-> boxes[<<i>>].width]) = ContentWidth(boxes[<<>>])

\* C22: in EnhancedLayoutEngine's flex sizing, when the base sizes exceed the
\* line's main size (free < 0) and the sum of flex-shrink > 0, child i loses
\* |free| * (shrink_i * base_i) / sum_j (shrink_j * base_j) of its main
\* size, floored at 0.
C22_FlexShrinkWeighted ==
    (Done /\ engine = "EnhancedLayoutEngine" /\ RowFlexContainer(<<>>)) =>
        LET kids == tree.children
            n == Len(kids)
            free == ContentWidth(boxes[<<>>]) - SumSeq([i \in 1..n |-> FlexBaseOf(kids[i])])
            total_shrink == SumSeq([i \in 1..n |-> FlexShrinkOf(kids[i])])
            weight(i) == FlexShrinkOf(kids[i]) * FlexBaseOf(kids[i])
            weights == SumSeq([i \in 1..n |-> weight(i)])
        IN  (free < 0 /\ total_shrink > 0 /\ weights > 0) =>
                \A i \in Kids(<<>>) :
                    boxes[<<i>>].width * weights =
                        Max(0, FlexBaseOf(kids[i]) * weights - Abs(free) * weight(i))

\* The style property that plays, on the other axis, the part of k
SwapAxis(k) ==
    CASE k = "width" -> "height" [] k = "height" -> "width"
      [] k = "padding-left" -> "padding-top" [] k = "padding-top" -> "padding-left"
      [] k = "padding-right" -> "padding-bottom" [] k = "padding-bottom" -> "padding-right"
      [] k = "margin-left" -> "margin-top" [] k = "margin-top" -> "margin-left"
      [] k = "margin-right" -> "margin-bottom" [] k = "margin-bottom" -> "margin-right"
      [] OTHER -> k

\* The same document with the two axes swapped
RECURSIVE Transposed(_)
Transposed(e) ==
    LET style == e.computed_style
        swapped == [k \in {SwapAxis(j) : j \in DOMAIN style} |-> style[SwapAxis(k)]]
    IN  [e EXCEPT !.computed_style =
                      IF Has(swapped, "flex-direction")
                      THEN [swapped EXCEPT !["flex-direction"] =
                               IF @ = "column" THEN "row" ELSE IF @ = "row" THEN "column" ELSE @]
                      ELSE swapped,
                  !.children = [i \in DOMAIN @ |-> Transposed(@[i])]]

\* The boxes a first LayoutEngine(vp).layout(t) computes
FirstBaseLayout(t, vp) ==
    Self("Base_layout", <<[boxes |-> NoBoxes, raised |-> FALSE, positioned_elements |-> <<>>],
                          t, <<>>, vp, vp.w, vp.h, TRUE, 0, 0>>)

ColumnFlexRoot ==
    /\ Get(tree.computed_style, "display", "block") = "flex"
    /\ Get(tree.computed_style, "flex-direction", "row") = "column"

\* C23: LayoutEngine's column flex layout is the transpose of its row flex
\* layout: with width/height, x/y and the container's width/height swapped,
\* every child gets from _layout_flex_column the main size and main-axis
\* position _layout_flex_row gives it.
C23_ColumnIsTransposedRow ==
    (passes = 1 /\ ~raised /\ engine = "LayoutEngine" /\ ColumnFlexRoot) =>
        LET row == FirstBaseLayout(Transposed(tree), [w |-> viewport.h, h |-> viewport.w])
        IN  /\ ~row.raised
            /\ \A i \in Kids(<<>>) :
                  Laid(<<i>>) =>
                      /\ <<i>> \in DOMAIN row.boxes
                      /\ boxes[<<i>>].height = row.boxes[<<i>>].width
                      /\ boxes[<<i>>].y = row.boxes[<<i>>].x

OrderOf(e) == Get(e.computed_style, "order", Num(0)).num

\* C24: in every layout pass, the first included, EnhancedLayoutEngine places
\* the children of a flex container along the main axis in ascending value
\* of their order property, children of equal order in source order.
C24_FlexOrder ==
    (Done /\ engine = "EnhancedLayoutEngine" /\ RowFlexContainer(<<>>)) =>
        \A i \in Kids(<<>>) : \A j \in Kids(<<>>) :
            (\/ OrderOf(tree.children[i]) < OrderOf(tree.children[j])
             \/ (OrderOf(tree.children[i]) = OrderOf(tree.children[j]) /\ i < j)) =>
                boxes[<<i>>].x <= boxes[<<j>>].x

\* A flex container whose children all lie on one line, in source order
FlexLineRoot ==
    /\ Get(tree.computed_style, "display", "block") = "flex"
    /\ Get(tree.computed_style, "flex-direction", "row") \in {"row", "column"}
    /\ Laid(<<>>) /\ Kids(<<>>) # {}
    /\ \A i \in Kids(<<>>) : Laid(<<i>>) /\ OrderOf(tree.children[i]) = 0

RowLine == Get(tree.computed_style, "flex-direction", "row") = "row"
MainStart(i) == IF RowLine THEN boxes[<<i>>].x ELSE boxes[<<i>>].y
MainSize(i) == IF RowLine THEN boxes[<<i>>].width ELSE boxes[<<i>>].height
LineStart == IF RowLine THEN ContentX(boxes[<<>>]) ELSE ContentY(boxes[<<>>])
LineSize == IF RowLine THEN ContentWidth(boxes[<<>>]) ELSE ContentHeight(boxes[<<>>])
LineGap == Get(tree.computed_style, "gap", Px(0)).num
LineCount == Len(tree.children)

\* The leftover main-axis space E of the line
Leftover ==
    LineSize - SumSeq([i \in 1..LineCount |-> MainSize(i)]) - LineGap * (LineCount - 1)

\* The space before the first item, after the last item, and the space
\* between items i and i + 1 beyond the gap
Leading == MainStart(1) - LineStart
Trailing == LineStart + LineSize - (MainStart(LineCount) + MainSize(LineCount))
Between(i) == MainStart(i + 1) - (MainStart(i) + MainSize(i)) - LineGap

\* C25: for a flex line of n items with leftover main-axis space E >= 0 the
\* items are placed in order without overlap and E is distributed as
\* justify-content prescribes: flex-start leaves E after the last item,
\* flex-end puts E before the first, center E/2 on each side, space-between
\* (n > 1) E/(n-1) between neighbours and nothing at the ends, space-around
\* E/n between neighbours and E/(2n) at each end, space-evenly E/(n+1)
\* between neighbours and at each end.
C25_JustifyContent ==
    (Done /\ engine = "EnhancedLayoutEngine" /\ FlexLineRoot /\ Leftover >= 0) =>
        LET keyword == Get(tree.computed_style, "justify-content", "flex-start")
            n == LineCount
            E == Leftover
            inner == 1..(n - 1)
        IN  /\ \A i \in inner : MainStart(i + 1) >= MainStart(i) + MainSize(i)
            /\ keyword = "flex-start" =>
                  Leading = 0 /\ Trailing = E /\ \A i \in inner : Between(i) = 0
            /\ keyword = "flex-end" =>
                  Leading = E /\ Trailing = 0 /\ \A i \in inner : Between(i) = 0
            /\ keyword = "center" =>
                  2 * Leading = E /\ 2 * Trailing = E /\ \A i \in inner : Between(i) = 0
            /\ (keyword = "space-between" /\ n > 1) =>
                  Leading = 0 /\ Trailing = 0 /\ \A i \in inner : (n - 1) * Between(i) = E
            /\ keyword = "space-around" =>
                  /\ 2 * n * Leading = E /\ 2 * n * Trailing = E
                  /\ \A i \in inner : n * Between(i) = E
            /\ keyword = "space-evenly" =>
                  /\ (n + 1) * Leading = E /\ (n + 1) * Trailing = E
                  /\ \A i \in inner : (n + 1) * Between(i) = E

\* Two items on a space-around line in a wrapping container, with leftover
\* space and a gap
C25_Witness ==
    /\ Done /\ FlexLineRoot /\ LineCount = 2 /\ Leftover > 0 /\ LineGap > 0
    /\ Get(tree.computed_style, "justify-content", "flex-start") = "space-around"
    /\ Get(tree.computed_style, "flex-wrap", "nowrap") = "wrap"
    /\ Between(1) > 0 /\ Leading > 0

GridRoot == Laid(<<>>) /\ Get(tree.computed_style, "display", "block") = "grid"

Overlap(a, b) ==
    /\ a.x < b.x + b.width /\ b.x < a.x + a.width
    /\ a.y < b.y + b.height /\ b.y < a.y + a.height

\* C26: in an EnhancedLayoutEngine grid the children without a matching named
\* area go, in source order, one each into the next unoccupied cell, never
\* into a cell of a placed named area; so no two children of a grid
\* container lie on the same cell or on overlapping rectangles, whatever the
\* number of children and their grid-area values.
C26_GridNoOverlap ==
    (Done /\ engine = "EnhancedLayoutEngine" /\ GridRoot) =>
        \A i \in Kids(<<>>) : \A j \in Kids(<<>>) :
            (i < j /\ Laid(<<i>>) /\ Laid(<<j>>)) =>
                /\ <<boxes[<<i>>].x, boxes[<<i>>].y>> # <<boxes[<<j>>].x, boxes[<<j>>].y>>
                /\ ~Overlap(boxes[<<i>>], boxes[<<j>>])

\* The same document with the root a block container
AsBlock(t) == [t EXCEPT !.computed_style = [@ EXCEPT !["display"] = "block"]]

\* A grid without any track in grid-template-columns and grid-template-rows
\* (and no areas to derive them from), or with a content box of no width or
\* no height
DegenerateGrid ==
    /\ GridRoot
    /\ \/ /\ ~Has(tree.computed_style, "grid-template-columns")
          /\ ~Has(tree.computed_style, "grid-template-rows")
          /\ ~Has(tree.computed_style, "grid-template-areas")
       \/ ContentWidth(boxes[<<>>]) <= 0
       \/ ContentHeight(boxes[<<>>]) <= 0

\* C27: the children of a grid container with zero valid tracks, or with a
\* content width or height that is not positive, are laid out as block
\* flow: stacked top to bottom at the content-left edge, full width.
C27_GridFallsBackToBlock ==
    (passes = 1 /\ ~raised /\ engine = "EnhancedLayoutEngine" /\ DegenerateGrid) =>
        \A i \in Kids(<<>>) :
            /\ Laid(<<i>>)
            /\ Size(boxes[<<i>>]) = Size(FirstLayout(AsBlock(tree))[<<i>>])

InlineRoot ==
    /\ Laid(<<>>)
    /\ Get(tree.computed_style, "display", "block") = "block"
    /\ tree.children # <<>>
    /\ \A i \in Kids(<<>>) :
          Get(tree.children[i].computed_style, "display", "block") = "inline-block"

TotalWidth(b) == b.width + b.margin_left + b.margin_right
MarginBoxHeight(b) == b.height + b.margin_top + b.margin_bottom

\* the pen after the first i children of the root when lines are filled as
\* the wrapping rule says: [x, y] is where the next item would go, height
\* the largest margin-box height on the open line, held the number of items
\* on it, at the place given to child i
RECURSIVE Pen(_)
Pen(i) ==
    IF i = 0
    THEN [x |-> ContentX(boxes[<<>>]), y |-> ContentY(boxes[<<>>]), height |-> 0,
          held |-> 0, at |-> <<ContentX(boxes[<<>>]), ContentY(boxes[<<>>])>>]
    ELSE LET before == Pen(i - 1)
             b == boxes[<<i>>]
             left == ContentX(boxes[<<>>])
             remaining == Max(0, ContentWidth(boxes[<<>>]) - (before.x - left))
             wraps == TotalWidth(b) > remaining /\ before.held >= 1
             x0 == IF wraps THEN left ELSE before.x
             y0 == IF wraps THEN before.y + before.height ELSE before.y
         IN  [x |-> x0 + TotalWidth(b), y |-> y0,
              height |-> Max(IF wraps THEN 0 ELSE before.height, MarginBoxHeight(b)),
              held |-> IF wraps THEN 1 ELSE before.held + 1, at |-> <<x0, y0>>]

\* C28: in LayoutEngine's inline flow an inline-block child starts a new line
\* exactly when its total width (content width plus left and right margins)
\* exceeds the remaining width and the line already holds an item; on wrapping
\* x goes back to the container's content-left edge and y advances by the
\* largest margin-box height of the closed line.  So no line holding two or
\* more children is wider than the container, and no child overlaps a child
\* of an earlier line.
C28_InlineWrap ==
    (Done /\ engine = "LayoutEngine" /\ InlineRoot) =>
        /\ \A i \in Kids(<<>>) :
              /\ boxes[<<i>>].x - boxes[<<i>>].margin_left = Pen(i).at[1]
              /\ boxes[<<i>>].y - boxes[<<i>>].margin_top = Pen(i).at[2]
              /\ Pen(i).held >= 2 =>
                    Pen(i).x <= ContentX(boxes[<<>>]) + ContentWidth(boxes[<<>>])
        /\ \A i, j \in Kids(<<>>) :
              (i < j /\ Pen(j).at[2] > Pen(i).at[2]) => ~Overlap(boxes[<<i>>], boxes[<<j>>])

\* the steps of the capture-target-bubble protocol for an event: the
\* ancestors root first with their capture listeners, the target with all
\* its listeners, then, for a bubbling event, the ancestors parent first
\* with their non-capture listeners
ProtocolSteps(ev) ==
    [k \in 1..Len(ev.target) |->
        [element |-> SubSeq(ev.target, 1, k - 1), phase |-> "CAPTURING", captures |-> {TRUE}]]
    \o << [element |-> ev.target, phase |-> "AT_TARGET", captures |-> BOOLEAN] >>
    \o (IF ev.bubbles
        THEN [k \in 1..Len(ev.target) |->
                 [element |-> SubSeq(ev.target, 1, Len(ev.target) - k),
                  phase |-> "BUBBLING", captures |-> {FALSE}]]
        ELSE <<>>)

\* the listeners the first n steps address, in the order of the steps and,
\* within a step, of registration
RECURSIVE Addressed(_, _)
Addressed(ev, n) ==
    IF n = 0 THEN <<>>
    ELSE LET step == ProtocolSteps(ev)[n]
             registered == manager.event_listeners[step.element][ev.type]
             all == [i \in 1..Len(registered) |->
                        [element |-> step.element, listener |-> i, phase |-> step.phase,
                         step |-> n, handler |-> registered[i].handler,
                         capture |-> registered[i].capture]]
         IN  Addressed(ev, n - 1) \o SelectSeq(all, LAMBDA c : c.capture \in step.captures)

\* the j-th addressed listener runs unless an earlier one stopped the event
\* for good or stopped its propagation on an earlier step
StillRuns(addressed, j) ==
    \A i \in 1..(j - 1) :
        /\ addressed[i].handler # "stop_immediate_propagation"
        /\ addressed[i].handler = "stop_propagation" => addressed[i].step = addressed[j].step

ProtocolCalls(ev) ==
    LET addressed == Addressed(ev, Len(ProtocolSteps(ev)))
        n == Cardinality({j \in 1..Len(addressed) : StillRuns(addressed, j)})
    IN  [j \in 1..n |-> [element |-> addressed[j].element, listener |-> addressed[j].listener,
                         phase |-> addressed[j].phase]]

\* C29: dispatch_event follows the capture-target-bubble protocol: capture
\* listeners on the ancestors from the root down to the target's parent, then
\* every listener registered on the target for the event's type (capture or
\* not) once, then, if the event bubbles, non-capture listeners on the
\* ancestors from the parent up to the root; after stop_propagation no
\* listener on a later element runs, after stop_immediate_propagation none.
C29_DispatchProtocol ==
    (manager # None /\ Len(trace.dispatched) = 1) =>
        trace.calls = ProtocolCalls(trace.dispatched[1])

\* C30: whatever the sequence of handle_mouse_motion, handle_mouse_down and
\* handle_mouse_up calls, handle_mouse_up dispatches 'click' on an element
\* only if the most recent handle_mouse_down hit that same element.
C30_ClickNeedsPress ==
    manager # None =>
        \A i \in 1..Len(trace.dispatched) :
            trace.dispatched[i].type = "click" =>
                /\ trace.mouse_down.some
                /\ trace.mouse_down.v.some
                /\ trace.mouse_down.v.v = trace.dispatched[i].target

====
